---- MODULE Spec2Model ----
(***************************************************************************)
(* Telemetry pipeline of the pool miner: StatsTracker (stats.py), the      *)
(* MinerDashboard lifecycle manager with its snapshot worker               *)
(* (dashboard/lifecycle.py) and the TrainingDashboard render loop          *)
(* (dashboard/dashboard.py), run as asyncio tasks on one event loop.       *)
(*                                                                         *)
(* Time is counted in whole seconds.  A float is kept as the exact         *)
(* fraction num * unit / den with den > 0; NaN (den = 0) stands for the    *)
(* non-finite floats.  Attributes of the miner object that the snapshot    *)
(* builder probes with getattr (state_manager, model_manager, hotkey,      *)
(* need_to_pull_weights) are absent, so every probe yields its default.    *)
(***************************************************************************)
EXTENDS Integers, Sequences, FiniteSets, TLC

VARIABLES
    started,            \* MinerDashboard._started
    stop_event,         \* MinerDashboard._stop_event (is_set)
    snapshot_queue,     \* MinerDashboard._snapshot_queue: None or the queued snapshots, oldest first
    snapshot_task,      \* MinerDashboard._snapshot_task: None or a task handle
    app_task,           \* MinerDashboard._app_task: None or a task handle
    dashboard,          \* MinerDashboard._dashboard: None or the TrainingDashboard object
    worker_pc,          \* position of the _snapshot_worker task
    worker_cancel,      \* cancellation requested for the _snapshot_worker task
    consecutive_errors, \* local of _snapshot_worker
    ui_pc,              \* position of the _run_dashboard task
    ui_cancel,          \* cancellation requested for the _run_dashboard task
    frame,              \* what the Live display of TrainingDashboard.run shows
    stop_pc,            \* position of the stop() coroutine in flight
    raised,             \* an exception has left start() or stop() towards the caller
    tracker,            \* the StatsTracker object
    now,                \* the clock (monotonic() and datetime.now())
    next_id,            \* identity of the next DashboardSnapshot object constructed
    start_calls,        \* parity of the number of start() calls made so far
    config,             \* the arguments the StatsTracker was constructed with
    call                \* the last call made on the StatsTracker from outside the pipeline, with its outcome

vars == <<started, stop_event, snapshot_queue, snapshot_task, app_task, dashboard,
          worker_pc, worker_cancel, consecutive_errors, ui_pc, ui_cancel, frame,
          stop_pc, raised, tracker, now, next_id, start_calls, config, call>>

None == [none |-> TRUE]
Float(n) == [num |-> n, den |-> 1, unit |-> 1]
NaN == [num |-> 0, den |-> 0, unit |-> 1]

\* ---- bounds of the exploration ----
MaxTime == 1
MaxSnapshots == 9
MaxRecords == 1
MaxTimeoutCount == 2
MaxStallCount == 20
MaxCalls == 3
MaxStamp == 2
MaxByteCount == 1
MaxWindow == 2
MaxLossCalls == 53
MaxSeconds == 59
MaxRateCalls == 61
MaxSummaryCalls == 4
MaxFrameCalls == 2
MaxPoints == 3
MaxShapePoints == 5
MaxColdkeys == 2
MaxHotkeys == 1
MaxIngests == 4

\* ---- program constants ----
QueueMaxSize == 5
MaxConsecutiveErrors == 5
RefreshInterval == 1
DefaultWindow == 300
DefaultLossHistorySize == 50
HistoryMaxLen == 50
StallThreshold == 10
StallPeriod == 20
Micro == 1000000

LossValues == {Float(1), NaN}

Min(a, b) == IF a <= b THEN a ELSE b

\* math.isfinite
isfinite(x) == x.den > 0

Zero == Float(0)

\* ---------------------------------------------------------------------
\* StatsTracker (stats.py)
\* ---------------------------------------------------------------------

\* StatsTracker(activation_history_window=..., loss_history_size=...): the
\* dataclass defaults and __post_init__, which gives the loss deque its maxlen
StatsTrackerWith(c) ==
    [activation_history_window |-> c.activation_history_window,
     loss_history_size |-> c.loss_history_size,
     loss_maxlen |-> c.loss_history_size,
     current_layer |-> None, current_phase |-> None,
     remote_epoch |-> None, local_epoch |-> None, run_id |-> None,
     forward_count |-> 0, backward_count |-> 0,
     download_bytes |-> 0, upload_bytes |-> 0,
     activations |-> <<>>, loss_history |-> <<>>]

DefaultConfig ==
    [activation_history_window |-> DefaultWindow, loss_history_size |-> DefaultLossHistorySize]

\* StatsTracker(), as Miner.__init__ constructs it
StatsTracker == StatsTrackerWith(DefaultConfig)

\* no call has been made yet
NoCall ==
    [op |-> "none", seq |-> 0, arg |-> 0, time |-> 0, window |-> 0, result |-> None,
     raised |-> FALSE]

RECURSIVE _prune_activations(_, _, _)
_prune_activations(acts, current_time, window_seconds) ==
    IF acts # <<>> /\ acts[1].timestamp < current_time - window_seconds
    THEN _prune_activations(Tail(acts), current_time, window_seconds)
    ELSE acts

_record_activation(t, direction, timestamp) ==
    [t EXCEPT !.activations =
        _prune_activations(Append(t.activations, [timestamp |-> timestamp, direction |-> direction]),
                           timestamp, t.activation_history_window)]

record_forward(t, timestamp) ==
    _record_activation([t EXCEPT !.forward_count = @ + 1], "forward", timestamp)

\* mutant: record_backward counts the activation as a forward one
record_backward_counts_forward(t, timestamp) ==
    _record_activation([t EXCEPT !.forward_count = @ + 1], "backward", timestamp)

record_backward(t, timestamp) ==
    _record_activation([t EXCEPT !.backward_count = @ + 1], "backward", timestamp)

\* mutant: the byte total is updated before the argument is checked
record_download_unchecked(t, byte_count) == [t EXCEPT !.download_bytes = @ + byte_count]

\* record_download: the tracker afterwards, whether it returned or raised
record_download(t, byte_count) ==
    IF byte_count < 0 THEN t ELSE [t EXCEPT !.download_bytes = @ + byte_count]

\* record_upload: the tracker afterwards, whether it returned or raised
record_upload(t, byte_count) ==
    IF byte_count < 0 THEN t ELSE [t EXCEPT !.upload_bytes = @ + byte_count]

\* record_download and record_upload raise ValueError
raises_ValueError(byte_count) == byte_count < 0

\* a value that is not None
Some(v) == [some |-> v]

\* str() of the objects handed to set_phase and set_run_id
str(v) == CASE v = 1 -> "1" [] v = 2 -> "2" [] OTHER -> "0"

set_layer(t, layer) == [t EXCEPT !.current_layer = layer]
set_phase(t, phase) ==
    [t EXCEPT !.current_phase = IF phase # None THEN Some(str(phase.some)) ELSE None]
set_remote_epoch(t, epoch) == [t EXCEPT !.remote_epoch = epoch]
set_local_epoch(t, epoch) == [t EXCEPT !.local_epoch = epoch]
set_run_id(t, run_id) ==
    [t EXCEPT !.run_id = IF run_id # None THEN Some(str(run_id.some)) ELSE None]

\* mutant: reset() leaves the activation samples in place
reset_keeps_activations(t) ==
    [t EXCEPT !.activation_history_window = DefaultWindow,
              !.loss_history_size = DefaultLossHistorySize,
              !.current_layer = None, !.current_phase = None,
              !.remote_epoch = None, !.local_epoch = None, !.run_id = None,
              !.forward_count = 0, !.backward_count = 0,
              !.download_bytes = 0, !.upload_bytes = 0,
              !.loss_history = <<>>]

\* reset(): the two configuration fields are set to 300.0 and 50, the deques
\* are cleared in place, so the loss deque keeps its maxlen
reset(t) ==
    [t EXCEPT !.activation_history_window = DefaultWindow,
              !.loss_history_size = DefaultLossHistorySize,
              !.current_layer = None, !.current_phase = None,
              !.remote_epoch = None, !.local_epoch = None, !.run_id = None,
              !.forward_count = 0, !.backward_count = 0,
              !.download_bytes = 0, !.upload_bytes = 0,
              !.activations = <<>>, !.loss_history = <<>>]

\* deque(maxlen).append: the oldest entry leaves when the deque is full
DequeAppend(d, x, maxlen) ==
    IF maxlen = 0 THEN d
    ELSE IF Len(d) >= maxlen THEN Append(Tail(d), x)
    ELSE Append(d, x)

record_loss(t, loss_value, timestamp) ==
    [t EXCEPT !.loss_history =
        DequeAppend(@, [timestamp |-> timestamp, value |-> loss_value], t.loss_maxlen)]

total_activations(t) == t.forward_count + t.backward_count

\* the tracker after activation_rate(): the call prunes before it counts
activation_rate_tracker(t, time, window_seconds) ==
    [t EXCEPT !.activations = _prune_activations(@, time, window_seconds)]

\* mutant: the rate is left per second
activation_rate_per_second(t, time, window_seconds) ==
    LET acts == activation_rate_tracker(t, time, window_seconds).activations
        count == Cardinality({i \in 1..Len(acts) : time - acts[i].timestamp <= window_seconds})
    IN  IF acts = <<>> THEN Zero
        ELSE IF count = 0 \/ window_seconds <= 0 THEN Zero
        ELSE LET den == Min(window_seconds * Micro, (time - acts[1].timestamp) * Micro + 1)
             IN  IF den > 0 THEN [num |-> count, den |-> den, unit |-> Micro]
                 ELSE [num |-> 0 - count, den |-> 0 - den, unit |-> Micro]

activation_rate(t, time, window_seconds) ==
    LET acts == activation_rate_tracker(t, time, window_seconds).activations
        count == Cardinality({i \in 1..Len(acts) : time - acts[i].timestamp <= window_seconds})
    IN  IF acts = <<>> THEN Zero
        ELSE IF count = 0 \/ window_seconds <= 0 THEN Zero
        ELSE LET den == Min(window_seconds * Micro, (time - acts[1].timestamp) * Micro + 1)
             IN  IF den > 0 THEN [num |-> count * 60, den |-> den, unit |-> Micro]
                 ELSE [num |-> 0 - count * 60, den |-> 0 - den, unit |-> Micro]

\* sum() over floats of denominator 1; a NaN operand makes the sum NaN
RECURSIVE SumLoss(_)
SumLoss(losses) ==
    IF losses = <<>> THEN Zero
    ELSE LET rest == SumLoss(Tail(losses))
         IN  IF ~isfinite(Head(losses)) \/ ~isfinite(rest) THEN NaN
             ELSE Float(Head(losses).num + rest.num)

\* x < y on floats: false as soon as one operand is NaN
lt(x, y) ==
    /\ isfinite(x)
    /\ isfinite(y)
    /\ x.num * x.unit * y.den < y.num * y.unit * x.den

\* min() of a non-empty list: the first element unless a later one is < it
RECURSIVE min(_)
min(losses) ==
    IF Len(losses) = 1 THEN losses[1]
    ELSE LET front == min(SubSeq(losses, 1, Len(losses) - 1))
         IN  IF lt(losses[Len(losses)], front) THEN losses[Len(losses)] ELSE front

\* max() of a non-empty list: the first element unless a later one is > it
RECURSIVE max(_)
max(losses) ==
    IF Len(losses) = 1 THEN losses[1]
    ELSE LET front == max(SubSeq(losses, 1, Len(losses) - 1))
         IN  IF lt(front, losses[Len(losses)]) THEN losses[Len(losses)] ELSE front

\* mutant: the summary reports the oldest stored value as the latest
loss_summary_latest_oldest(t) ==
    IF t.loss_history = <<>> THEN None
    ELSE LET losses == [i \in 1..Len(t.loss_history) |-> t.loss_history[i].value]
             total == SumLoss(losses)
         IN  [count |-> Len(losses),
              min |-> min(losses),
              max |-> max(losses),
              avg |-> IF ~isfinite(total) THEN NaN
                      ELSE [num |-> total.num, den |-> Len(losses), unit |-> 1],
              latest |-> losses[1]]

loss_summary(t) ==
    IF t.loss_history = <<>> THEN None
    ELSE LET losses == [i \in 1..Len(t.loss_history) |-> t.loss_history[i].value]
             total == SumLoss(losses)
         IN  [count |-> Len(losses),
              min |-> min(losses),
              max |-> max(losses),
              avg |-> IF ~isfinite(total) THEN NaN
                      ELSE [num |-> total.num, den |-> Len(losses), unit |-> 1],
              latest |-> losses[Len(losses)]]

\* ---------------------------------------------------------------------
\* DashboardSnapshot (dashboard/models.py) and its constructions
\* ---------------------------------------------------------------------

StatusMessage(text, count) == [text |-> text, count |-> count]

\* mutant: the snapshot is stamped with the time the process started
MinimalSnapshotStale(id, time, status_message) ==
    [id |-> id, generated_at |-> 0, run_id |-> None, layer |-> None,
     activation_rate |-> Zero, total_activations |-> 0,
     latest_loss |-> None, loss_average |-> None,
     download_bytes |-> 0, upload_bytes |-> 0,
     forward_count |-> 0, backward_count |-> 0,
     remote_epoch |-> None, local_epoch |-> None,
     need_to_pull_weights |-> FALSE, phase |-> None,
     status_message |-> status_message]

\* the all-defaults snapshot built in start(), in the worker's except branch and in run()
MinimalSnapshot(id, time, status_message) ==
    [id |-> id, generated_at |-> time, run_id |-> None, layer |-> None,
     activation_rate |-> Zero, total_activations |-> 0,
     latest_loss |-> None, loss_average |-> None,
     download_bytes |-> 0, upload_bytes |-> 0,
     forward_count |-> 0, backward_count |-> 0,
     remote_epoch |-> None, local_epoch |-> None,
     need_to_pull_weights |-> FALSE, phase |-> None,
     status_message |-> status_message]

_describe_status(t, need_to_pull) ==
    IF t.current_phase # None THEN StatusMessage("Phase", 0)
    ELSE IF need_to_pull THEN StatusMessage("Needs weight pull", 0)
    ELSE StatusMessage("Collecting miner metrics", 0)

\* mutant: the total counts the forward activations only
_build_snapshot_total_forward(id, t, time) ==
    LET summary == loss_summary(t)
    IN  [id |-> id, generated_at |-> time, run_id |-> t.run_id, layer |-> t.current_layer,
         activation_rate |-> activation_rate(t, time, t.activation_history_window),
         total_activations |-> t.forward_count,
         latest_loss |-> IF summary = None THEN None ELSE summary.latest,
         loss_average |-> IF summary = None THEN None ELSE summary.avg,
         download_bytes |-> t.download_bytes, upload_bytes |-> t.upload_bytes,
         forward_count |-> t.forward_count, backward_count |-> t.backward_count,
         remote_epoch |-> t.remote_epoch, local_epoch |-> t.local_epoch,
         need_to_pull_weights |-> FALSE, phase |-> t.current_phase,
         status_message |-> _describe_status(t, FALSE)]

\* _build_snapshot: every tracker field is read in one synchronous call
_build_snapshot(id, t, time) ==
    LET summary == loss_summary(t)
    IN  [id |-> id, generated_at |-> time, run_id |-> t.run_id, layer |-> t.current_layer,
         activation_rate |-> activation_rate(t, time, t.activation_history_window),
         total_activations |-> total_activations(t),
         latest_loss |-> IF summary = None THEN None ELSE summary.latest,
         loss_average |-> IF summary = None THEN None ELSE summary.avg,
         download_bytes |-> t.download_bytes, upload_bytes |-> t.upload_bytes,
         forward_count |-> t.forward_count, backward_count |-> t.backward_count,
         remote_epoch |-> t.remote_epoch, local_epoch |-> t.local_epoch,
         need_to_pull_weights |-> FALSE, phase |-> t.current_phase,
         status_message |-> _describe_status(t, FALSE)]

\* the tracker after _build_snapshot: its activation_rate() call pruned the samples
_build_snapshot_tracker(t, time) == activation_rate_tracker(t, time, t.activation_history_window)

\* ---------------------------------------------------------------------
\* The channel: asyncio.Queue(maxsize=5)
\* ---------------------------------------------------------------------

\* a queue object holds its items oldest first
Queue == [items |-> <<>>]

full(q) == Len(q.items) >= QueueMaxSize

\* mutant: the put is lost
put_nowait_lost(q, snapshot) == q

\* Queue.put_nowait as start() uses it: QueueFull is swallowed by the except clause
put_nowait(q, snapshot) == IF full(q) THEN q ELSE [q EXCEPT !.items = Append(@, snapshot)]

\* mutant: a full queue turns the new snapshot away
_publish_snapshot_drops_newest(q, snapshot) ==
    IF q = None THEN q
    ELSE IF ~full(q) THEN [q EXCEPT !.items = Append(@, snapshot)]
    ELSE q

\* mutant: the eviction is forgotten
get_nowait_nothing(q) == q

\* Queue.get_nowait as _publish_snapshot uses it: the oldest item leaves;
\* QueueEmpty is swallowed by the except clause
get_nowait(q) == IF q.items = <<>> THEN q ELSE [q EXCEPT !.items = Tail(@)]

\* `await Queue.put(item)` waits for a getter while the queue is full, and
\* otherwise puts at once without giving up the event loop
put_waits(q) == full(q)

\* _publish_snapshot reaches a put that has to wait: the queue was full and
\* is full still after get_nowait
_publish_snapshot_waits(q) == q # None /\ full(q) /\ put_waits(get_nowait(q))

\* mutant: the queued snapshots are brought up to date with the one published
_publish_snapshot_refreshes_queued(q, snapshot) ==
    IF q = None THEN q
    ELSE LET refreshed == [i \in 1..Len(q.items) |-> [q.items[i] EXCEPT !.phase = snapshot.phase]]
         IN  IF ~full(q) THEN [q EXCEPT !.items = Append(refreshed, snapshot)]
             ELSE [q EXCEPT !.items = Append(Tail(refreshed), snapshot)]

\* MinerDashboard._publish_snapshot up to its return or to the put that waits:
\* put_nowait, and on QueueFull get_nowait followed by put
_publish_snapshot(q, snapshot) ==
    IF q = None THEN q
    ELSE IF ~full(q) THEN [q EXCEPT !.items = Append(@, snapshot)]
    ELSE IF put_waits(get_nowait(q)) THEN get_nowait(q)
    ELSE [q EXCEPT !.items = Append(get_nowait(q).items, snapshot)]

\* ---------------------------------------------------------------------
\* TrainingDashboard (dashboard/dashboard.py)
\* ---------------------------------------------------------------------

\* TrainingDashboard.__init__
TrainingDashboard ==
    [current_snapshot |-> None,
     loss_history |-> <<>>, throughput_history |-> <<>>, activation_rate_history |-> <<>>,
     snapshot_timeout_count |-> 0]

\* mutant: the values are appended whether finite or not
update_from_snapshot_unfiltered(d, snapshot) ==
    [d EXCEPT !.current_snapshot = snapshot,
              !.loss_history =
                  IF snapshot.latest_loss # None
                  THEN DequeAppend(@, snapshot.latest_loss, HistoryMaxLen) ELSE @,
              !.throughput_history = DequeAppend(@, snapshot.activation_rate, HistoryMaxLen),
              !.activation_rate_history = DequeAppend(@, snapshot.activation_rate, HistoryMaxLen)]

\* mutant: the rate goes to the throughput history alone
update_from_snapshot_throughput_only(d, snapshot) ==
    LET loss == IF snapshot.latest_loss # None /\ isfinite(snapshot.latest_loss)
                THEN DequeAppend(d.loss_history, snapshot.latest_loss, HistoryMaxLen)
                ELSE IF snapshot.loss_average # None /\ isfinite(snapshot.loss_average)
                THEN DequeAppend(d.loss_history, snapshot.loss_average, HistoryMaxLen)
                ELSE d.loss_history
        finite == isfinite(snapshot.activation_rate)
    IN  [d EXCEPT !.current_snapshot = snapshot,
                  !.loss_history = loss,
                  !.throughput_history =
                      IF finite THEN DequeAppend(@, snapshot.activation_rate, HistoryMaxLen) ELSE @]

update_from_snapshot(d, snapshot) ==
    LET loss == IF snapshot.latest_loss # None /\ isfinite(snapshot.latest_loss)
                THEN DequeAppend(d.loss_history, snapshot.latest_loss, HistoryMaxLen)
                ELSE IF snapshot.loss_average # None /\ isfinite(snapshot.loss_average)
                THEN DequeAppend(d.loss_history, snapshot.loss_average, HistoryMaxLen)
                ELSE d.loss_history
        finite == isfinite(snapshot.activation_rate)
    IN  [d EXCEPT !.current_snapshot = snapshot,
                  !.loss_history = loss,
                  !.throughput_history =
                      IF finite THEN DequeAppend(@, snapshot.activation_rate, HistoryMaxLen) ELSE @,
                  !.activation_rate_history =
                      IF finite THEN DequeAppend(@, snapshot.activation_rate, HistoryMaxLen) ELSE @]

\* the inner loop of run(): get_nowait until QueueEmpty, the last item got is kept
Drained(q) == IF q.items = <<>> THEN None ELSE q.items[Len(q.items)]

\* the tick of run() builds a placeholder when the drain was empty, the count
\* is past 10 and there is no current snapshot or the count is a multiple of 20
MakesPlaceholder(d, q) ==
    /\ Drained(q) = None
    /\ d.snapshot_timeout_count + 1 > StallThreshold
    /\ (d.current_snapshot = None \/ (d.snapshot_timeout_count + 1) % StallPeriod = 0)

\* mutant: every drained snapshot is ingested, oldest first
RECURSIVE IngestAll(_, _)
IngestAll(d, items) ==
    IF items = <<>> THEN d ELSE IngestAll(update_from_snapshot(d, Head(items)), Tail(items))

RunTickIngestsAll(d, q, id, time) ==
    IF q.items # <<>> THEN IngestAll(d, q.items)
    ELSE [d EXCEPT !.snapshot_timeout_count = @ + 1]

\* one pass of the body of `while True` in run(), up to the render
RunTick(d, q, id, time) ==
    LET snapshot == Drained(q)
    IN  IF snapshot # None THEN update_from_snapshot(d, snapshot)
        ELSE LET d1 == [d EXCEPT !.snapshot_timeout_count = @ + 1]
             IN  IF MakesPlaceholder(d, q)
                 THEN update_from_snapshot(d1,
                          MinimalSnapshot(id, time,
                              StatusMessage("Waiting for snapshots", d1.snapshot_timeout_count)))
                 ELSE d1

\* live.update(self.render()) and its except clauses
RenderOutcomes == {"ok", "render_raises", "error_panel_raises"}

Rendered(old_frame, outcome) ==
    CASE outcome = "ok" -> "layout"
      [] outcome = "render_raises" -> "error_panel"
      [] outcome = "error_panel_raises" -> old_frame

\* ---------------------------------------------------------------------
\* MinerDashboard (dashboard/lifecycle.py)
\* ---------------------------------------------------------------------

SnapshotTask == [name |-> "miner-dashboard-snapshots"]
AppTask == [name |-> "miner-dashboard-ui"]

WorkerSleeps == {"sleep_after_success", "sleep_after_error", "sleep_backoff"}
Done == {"returned", "cancelled"}

\* the argument of the asyncio.sleep call the worker is suspended in
SleepDelay(pc) == IF pc = "sleep_backoff" THEN RefreshInterval * 2 ELSE RefreshInterval

\* mutant: the backoff starts one failure late
ErrorSleepLate(n) == IF n > MaxConsecutiveErrors THEN "sleep_backoff" ELSE "sleep_after_error"

\* the sleep the worker's except branch picks after the n-th consecutive failure
ErrorSleep(n) == IF n >= MaxConsecutiveErrors THEN "sleep_backoff" ELSE "sleep_after_error"

\* where a pass of the worker leaves it: in the sleep that ends the pass, or
\* inside _publish_snapshot at a put that waits
AfterPublish(q, sleep) == IF _publish_snapshot_waits(q) THEN "await_put" ELSE sleep

Init ==
    /\ started = FALSE
    /\ stop_event = FALSE
    /\ snapshot_queue = None
    /\ snapshot_task = None
    /\ app_task = None
    /\ dashboard = None
    /\ worker_pc = "none"
    /\ worker_cancel = FALSE
    /\ consecutive_errors = 0
    /\ ui_pc = "none"
    /\ ui_cancel = FALSE
    /\ frame = "none"
    /\ stop_pc = "idle"
    /\ raised = FALSE
    /\ tracker = StatsTracker
    /\ now = 0
    /\ next_id = 0
    /\ start_calls = 0
    /\ config = DefaultConfig
    /\ call = NoCall

\* mutant: start() runs through although the dashboard is started
start_again ==
    /\ ~raised
    /\ started
    /\ start_calls' = 1 - start_calls
    /\ UNCHANGED <<config, call>>
    /\ stop_event' = FALSE
    /\ snapshot_queue' = Queue
    /\ dashboard' = TrainingDashboard
    /\ worker_pc' = "created"
    /\ ui_pc' = "created"
    /\ UNCHANGED <<started, snapshot_task, app_task, worker_cancel, consecutive_errors,
                   ui_cancel, frame, stop_pc, raised, tracker, now, next_id>>

\* mutant: start() on a started dashboard spawns the two tasks anew when both have ended
start_started_respawns ==
    /\ ~raised
    /\ started
    /\ start_calls' = 1 - start_calls
    /\ IF worker_pc \in Done /\ ui_pc \in Done /\ stop_pc = "idle"
       THEN /\ worker_pc' = "created"
            /\ ui_pc' = "created"
            /\ stop_event' = FALSE
       ELSE UNCHANGED <<worker_pc, ui_pc, stop_event>>
    /\ UNCHANGED <<started, snapshot_queue, snapshot_task, app_task, dashboard,
                   worker_cancel, consecutive_errors, ui_cancel, frame,
                   stop_pc, raised, tracker, now, next_id, config, call>>

\* start() on a started dashboard returns at once
start_started ==
    /\ ~raised
    /\ started
    /\ start_calls' = 1 - start_calls
    /\ UNCHANGED <<config, call>>
    /\ UNCHANGED <<started, stop_event, snapshot_queue, snapshot_task, app_task, dashboard,
                   worker_pc, worker_cancel, consecutive_errors, ui_pc, ui_cancel, frame,
                   stop_pc, raised, tracker, now, next_id>>

\* start(): the TrainingDashboard constructor (line 50) raises; no try encloses it
start_constructor_raises ==
    /\ ~raised
    /\ ~started
    /\ start_calls' = 1 - start_calls
    /\ UNCHANGED <<config, call>>
    /\ stop_event' = FALSE
    /\ snapshot_queue' = Queue
    /\ raised' = TRUE
    /\ UNCHANGED <<started, snapshot_task, app_task, dashboard,
                   worker_pc, worker_cancel, consecutive_errors, ui_pc, ui_cancel, frame,
                   stop_pc, tracker, now, next_id>>

\* start() to its end; the real snapshot of line 79 is built or raises
start ==
    /\ ~raised
    /\ ~started
    /\ next_id + 2 <= MaxSnapshots
    /\ start_calls' = 1 - start_calls
    /\ UNCHANGED <<config, call>>
    /\ stop_event' = FALSE
    /\ dashboard' = TrainingDashboard
    /\ \E build_raises \in BOOLEAN :
         LET q0 == put_nowait(Queue, MinimalSnapshot(next_id, now,
                                         StatusMessage("Dashboard starting...", 0)))
         IN  IF build_raises
             THEN /\ snapshot_queue' = q0
                  /\ next_id' = next_id + 1
                  /\ tracker' = tracker
             ELSE /\ snapshot_queue' = put_nowait(q0, _build_snapshot(next_id + 1, tracker, now))
                  /\ next_id' = next_id + 2
                  /\ tracker' = _build_snapshot_tracker(tracker, now)
    /\ snapshot_task' = SnapshotTask
    /\ app_task' = AppTask
    /\ worker_pc' = "created"
    /\ worker_cancel' = FALSE
    /\ consecutive_errors' = 0
    /\ ui_pc' = "created"
    /\ ui_cancel' = FALSE
    /\ started' = TRUE
    /\ UNCHANGED <<frame, stop_pc, raised, now>>

\* the tail of stop(), lines 110-114
StopRelease ==
    /\ snapshot_queue' = None
    /\ snapshot_task' = None
    /\ app_task' = None
    /\ dashboard' = None
    /\ started' = FALSE
    /\ stop_pc' = "idle"

\* mutant: stop() relies on the stop flag and does not cancel the UI task
StopAwaitsAppUncancelled ==
    IF app_task = None \/ ui_pc \in Done
    THEN StopRelease /\ UNCHANGED ui_cancel
    ELSE /\ stop_pc' = "await_app_task"
         /\ UNCHANGED <<snapshot_queue, snapshot_task, app_task, dashboard, started, ui_cancel>>

\* stop() from `task.cancel()` on the UI task: awaiting a task that is done does not suspend
StopCancelApp ==
    IF app_task = None \/ ui_pc \in Done
    THEN StopRelease /\ UNCHANGED ui_cancel
    ELSE /\ ui_cancel' = TRUE
         /\ stop_pc' = "await_app_task"
         /\ UNCHANGED <<snapshot_queue, snapshot_task, app_task, dashboard, started>>

\* stop() up to its first suspension
stop ==
    /\ ~raised
    /\ started
    /\ stop_pc = "idle"
    /\ stop_event' = TRUE
    /\ IF snapshot_task = None \/ worker_pc \in Done
       THEN StopCancelApp /\ UNCHANGED worker_cancel
       ELSE /\ worker_cancel' = TRUE
            /\ stop_pc' = "await_snapshot_task"
            /\ UNCHANGED <<snapshot_queue, snapshot_task, app_task, dashboard, started, ui_cancel>>
    /\ UNCHANGED <<worker_pc, consecutive_errors, ui_pc, frame, raised, tracker, now, next_id,
                   start_calls, config, call>>

\* stop() resumed by the end of the snapshot task
stop_after_snapshot_task ==
    /\ stop_pc = "await_snapshot_task"
    /\ worker_pc \in Done
    /\ StopCancelApp
    /\ UNCHANGED <<stop_event, worker_pc, worker_cancel, consecutive_errors, ui_pc, frame,
                   raised, tracker, now, next_id, start_calls, config, call>>

\* stop() resumed by the end of the UI task
stop_after_app_task ==
    /\ stop_pc = "await_app_task"
    /\ ui_pc \in Done
    /\ StopRelease
    /\ UNCHANGED <<stop_event, worker_pc, worker_cancel, consecutive_errors, ui_pc, ui_cancel,
                   frame, raised, tracker, now, next_id, start_calls, config, call>>

\* ---- the _snapshot_worker task ----

\* the task runs its next step: from the start of the coroutine, or from a sleep
\* that is over.  The first step of the UI task was queued by start() before any
\* timer of the worker existed, so it has run when a sleep of the worker ends.
WorkerRuns ==
    /\ worker_pc \in {"created"} \cup WorkerSleeps
    /\ worker_pc \in WorkerSleeps => ui_pc # "created"
    /\ ~worker_cancel

\* the queue check of line 139 passed (or was passed earlier) and the loop test of line 152 holds
WorkerLoops ==
    /\ WorkerRuns
    /\ ~(worker_pc = "created" /\ snapshot_queue = None)
    /\ ~stop_event

\* one pass of the loop in which _build_snapshot returns: lines 154-169 and 206
_snapshot_worker_built ==
    /\ WorkerLoops
    /\ next_id < MaxSnapshots
    /\ consecutive_errors' = 0
    /\ snapshot_queue' = _publish_snapshot(snapshot_queue, _build_snapshot(next_id, tracker, now))
    /\ tracker' = _build_snapshot_tracker(tracker, now)
    /\ next_id' = next_id + 1
    /\ worker_pc' = AfterPublish(snapshot_queue, "sleep_after_success")
    /\ UNCHANGED <<started, stop_event, snapshot_task, app_task, dashboard, worker_cancel,
                   ui_pc, ui_cancel, frame, stop_pc, raised, now, start_calls, config, call>>

\* mutant: the placeholder is built before the failure is counted
_snapshot_worker_failed_stale_count ==
    /\ WorkerLoops
    /\ next_id < MaxSnapshots
    /\ consecutive_errors' = consecutive_errors + 1
    /\ snapshot_queue' = _publish_snapshot(snapshot_queue,
           MinimalSnapshot(next_id, now,
               StatusMessage("Error building snapshot", consecutive_errors)))
    /\ next_id' = next_id + 1
    /\ worker_pc' = AfterPublish(snapshot_queue, ErrorSleep(consecutive_errors + 1))
    /\ UNCHANGED <<started, stop_event, snapshot_task, app_task, dashboard, worker_cancel,
                   ui_pc, ui_cancel, frame, stop_pc, raised, tracker, now, start_calls, config, call>>

\* one pass of the loop in which _build_snapshot raises: lines 170-204
_snapshot_worker_failed ==
    /\ WorkerLoops
    /\ next_id < MaxSnapshots
    /\ consecutive_errors' = consecutive_errors + 1
    /\ snapshot_queue' = _publish_snapshot(snapshot_queue,
           MinimalSnapshot(next_id, now,
               StatusMessage("Error building snapshot", consecutive_errors + 1)))
    /\ next_id' = next_id + 1
    /\ worker_pc' = AfterPublish(snapshot_queue, ErrorSleep(consecutive_errors + 1))
    /\ UNCHANGED <<started, stop_event, snapshot_task, app_task, dashboard, worker_cancel,
                   ui_pc, ui_cancel, frame, stop_pc, raised, tracker, now, start_calls, config, call>>

\* the worker leaves: the early return of line 143, or the loop test fails and
\* the finally clause sets the stop event
_snapshot_worker_returns ==
    /\ WorkerRuns
    /\ IF worker_pc = "created" /\ snapshot_queue = None
       THEN UNCHANGED stop_event
       ELSE stop_event /\ stop_event' = TRUE
    /\ worker_pc' = "returned"
    /\ consecutive_errors' = 0
    /\ UNCHANGED <<started, snapshot_queue, snapshot_task, app_task, dashboard, worker_cancel,
                   ui_pc, ui_cancel, frame, stop_pc, raised, tracker, now, next_id, start_calls, config, call>>

\* CancelledError is thrown into the worker: a task that never ran ends without
\* entering its body, otherwise lines 207-208 re-raise and the finally clause runs
_snapshot_worker_cancelled ==
    /\ worker_cancel
    /\ worker_pc \in {"created", "await_put"} \cup WorkerSleeps
    /\ worker_pc' = "cancelled"
    /\ stop_event' = IF worker_pc = "created" THEN stop_event ELSE TRUE
    /\ consecutive_errors' = 0
    /\ UNCHANGED <<started, snapshot_queue, snapshot_task, app_task, dashboard, worker_cancel,
                   ui_pc, ui_cancel, frame, stop_pc, raised, tracker, now, next_id, start_calls, config, call>>

\* ---- the _run_dashboard task, which runs TrainingDashboard.run ----

\* the task runs its next step: from the start of the coroutine, or from the
\* sleep of line 467 that is over.  The first step of the worker was queued by
\* start() ahead of the first step of the UI task.
UiRuns ==
    /\ ui_pc \in {"created", "sleep"}
    /\ ~ui_cancel
    /\ worker_pc # "created"

\* mutant: the UI task ends on the error without setting the stop event
run_first_render_raises_flag_clear ==
    /\ UiRuns
    /\ ui_pc = "created"
    /\ dashboard # None
    /\ ui_pc' = "returned"
    /\ frame' = "none"
    /\ UNCHANGED <<started, stop_event, snapshot_queue, snapshot_task, app_task, dashboard,
                   worker_pc, worker_cancel, consecutive_errors, ui_cancel, stop_pc, raised,
                   tracker, now, next_id, start_calls, config, call>>

\* `Live(self.render(), ...)` of line 404 raises: run() re-raises, _run_dashboard
\* logs the error and its finally clause sets the stop event
run_first_render_raises ==
    /\ UiRuns
    /\ ui_pc = "created"
    /\ dashboard # None
    /\ ui_pc' = "returned"
    /\ stop_event' = TRUE
    /\ frame' = "none"
    /\ UNCHANGED <<started, snapshot_queue, snapshot_task, app_task, dashboard, worker_pc,
                   worker_cancel, consecutive_errors, ui_cancel, stop_pc, raised, tracker, now,
                   next_id, start_calls, config, call>>

\* one pass of the loop of run(), lines 405-467; the first pass follows the
\* first render of line 404 in the same step
RunPass(max_timeout_count) ==
    /\ UiRuns
    /\ dashboard # None
    /\ Drained(snapshot_queue) = None => dashboard.snapshot_timeout_count < max_timeout_count
    /\ MakesPlaceholder(dashboard, snapshot_queue) => next_id < MaxSnapshots
    /\ dashboard' = RunTick(dashboard, snapshot_queue, next_id, now)
    /\ snapshot_queue' = [snapshot_queue EXCEPT !.items = <<>>]
    /\ next_id' = IF MakesPlaceholder(dashboard, snapshot_queue) THEN next_id + 1 ELSE next_id
    /\ \E outcome \in RenderOutcomes :
         frame' = Rendered(IF ui_pc = "created" THEN "layout" ELSE frame, outcome)
    /\ ui_pc' = "sleep"
    /\ UNCHANGED <<started, stop_event, snapshot_task, app_task, worker_pc, worker_cancel,
                   consecutive_errors, ui_cancel, stop_pc, raised, tracker, now, start_calls, config, call>>

\* CancelledError is thrown into the UI task: a task that never ran ends without
\* entering its body, otherwise it leaves run() and the finally clause of line 135 runs
_run_dashboard_cancelled ==
    /\ ui_cancel
    /\ ui_pc \in {"created", "sleep"}
    /\ ui_pc' = "cancelled"
    /\ stop_event' = IF ui_pc = "created" THEN stop_event ELSE TRUE
    /\ frame' = "none"
    /\ UNCHANGED <<started, snapshot_queue, snapshot_task, app_task, dashboard, worker_pc,
                   worker_cancel, consecutive_errors, ui_cancel, stop_pc, raised, tracker, now,
                   next_id, start_calls, config, call>>

\* ---- the host: the training loop reports to the tracker, time passes ----

Recorded == tracker.forward_count + tracker.backward_count + Len(tracker.loss_history)

RecordForward ==
    /\ ~raised
    /\ Recorded < MaxRecords
    /\ tracker' = record_forward(tracker, now)
    /\ UNCHANGED <<started, stop_event, snapshot_queue, snapshot_task, app_task, dashboard,
                   worker_pc, worker_cancel, consecutive_errors, ui_pc, ui_cancel, frame,
                   stop_pc, raised, now, next_id, start_calls, config, call>>

RecordLoss ==
    /\ ~raised
    /\ Recorded < MaxRecords
    /\ \E loss_value \in LossValues : tracker' = record_loss(tracker, loss_value, now)
    /\ UNCHANGED <<started, stop_event, snapshot_queue, snapshot_task, app_task, dashboard,
                   worker_pc, worker_cancel, consecutive_errors, ui_pc, ui_cancel, frame,
                   stop_pc, raised, now, next_id, start_calls, config, call>>

TickUpTo(max_time) ==
    /\ ~raised
    /\ now < max_time
    /\ now' = now + 1
    /\ UNCHANGED <<started, stop_event, snapshot_queue, snapshot_task, app_task, dashboard,
                   worker_pc, worker_cancel, consecutive_errors, ui_pc, ui_cancel, frame,
                   stop_pc, raised, tracker, next_id, start_calls, config, call>>

Tick == TickUpTo(MaxTime)

\* ---------------------------------------------------------------------
\* plot (dashboard/chart.py)
\* ---------------------------------------------------------------------

\* float('inf') and float('-inf'); the finite values given to plot are whole
Inf == [num |-> 1, den |-> 0, unit |-> 1]
NegInf == [num |-> 0 - 1, den |-> 0, unit |-> 1]

\* math.isnan
isnan(x) == x.den = 0 /\ x.num = 0

Max(a, b) == IF a >= b THEN a ELSE b

\* the input of plot: one series of numbers, or a list of series
Single(values) == [nested |-> FALSE, lists |-> <<values>>]
Nested(lists) == [nested |-> TRUE, lists |-> lists]

\* len(series) of the argument as given
SeriesLen(series) == IF series.nested THEN Len(series.lists) ELSE Len(series.lists[1])

\* [j for i in series for j in i]
RECURSIVE Flatten(_)
Flatten(lists) == IF lists = <<>> THEN <<>> ELSE Head(lists) \o Flatten(Tail(lists))

\* the values left by filter(isfinite, ...)
FiniteValues(lists) ==
    LET flat == Flatten(lists) IN {flat[k].num : k \in {j \in 1..Len(flat) : isfinite(flat[j])}}

SetMin(S) == CHOOSE m \in S : \A n \in S : m <= n
SetMax(S) == CHOOSE m \in S : \A n \in S : m >= n

\* the configuration: a key that is absent is None, a key that is given is Some(v)
Cfg(min_, max_, height) == [min |-> min_, max |-> max_, height |-> height]
NoCfg == Cfg(None, None, None)

\* mutant: the zero baseline is left out of the default minimum
ResolvedMinimumOfData(lists, cfg) ==
    IF cfg.min = None THEN SetMin(FiniteValues(lists)) ELSE cfg.min.some

\* lines 25-28
ResolvedMinimum(lists, cfg) ==
    IF cfg.min = None THEN Min(0, SetMin(FiniteValues(lists))) ELSE cfg.min.some

\* lines 30-33
ResolvedMaximum(lists, cfg) ==
    IF cfg.max = None THEN SetMax(FiniteValues(lists)) ELSE cfg.max.some

\* ceil(n / d) and round(n / d) for d > 0; round() takes a tie to the even side
Ceil(n, d) == 0 - ((0 - n) \div d)
Round(n, d) ==
    LET q == n \div d
        r == n % d
    IN  IF 2 * r < d THEN q
        ELSE IF 2 * r > d THEN q + 1
        ELSE IF q % 2 = 0 THEN q ELSE q + 1

\* lines 41-55: interval, height, ratio (as height_ over per), min2, max2, rows
Scale(minimum, maximum, cfg) ==
    LET interval == maximum - minimum
        height == IF cfg.height = None THEN interval ELSE cfg.height.some
        height_ == IF interval > 0 THEN height ELSE 1
        per == IF interval > 0 THEN interval ELSE 1
        min2 == (minimum * height_) \div per
        max2 == Ceil(maximum * height_, per)
    IN  [minimum |-> minimum, maximum |-> maximum, interval |-> interval,
         height_ |-> height_, per |-> per, min2 |-> min2, max2 |-> max2, rows |-> max2 - min2]

\* clamp(n) at lines 49-50 on a value that is not NaN
clamp(sc, y) ==
    IF y = Inf THEN sc.maximum
    ELSE IF y = NegInf THEN sc.minimum
    ELSE Min(Max(y.num, sc.minimum), sc.maximum)

\* scaled(y) at lines 52-53 on a value that is not NaN
scaled(sc, y) == Round(clamp(sc, y) * sc.height_, sc.per) - sc.min2

\* scaled(NaN): clamp keeps the NaN and round() of it raises ValueError
scaled_raises(y) == isnan(y)

\* the glyphs of default_symbols, by their index at line 35
symbols ==
    [k \in 0..9 |->
        <<"axis_zero", "axis", "dangle_from_right", "dangle_to_left", "flat",
          "fall_lower", "rise_upper", "fall_upper", "rise_lower", "vertical">>[k + 1]]

offset == 3

Write(row, column, glyph) == [row |-> row, column |-> column, glyph |-> glyph]

\* lines 67-70: the label and the axis mark of every row
RECURSIVE AxisWrites(_, _)
AxisWrites(sc, y) ==
    IF y > sc.max2 THEN <<>>
    ELSE <<Write(y - sc.min2, 0, "label"),
           Write(y - sc.min2, offset - 1, IF y = 0 THEN symbols[0] ELSE symbols[1])>>
         \o AxisWrites(sc, y + 1)

\* the number printed as the label of a row, counted from the top
Label(sc, row) ==
    LET parts == IF sc.rows # 0 THEN sc.rows ELSE 1
    IN  [num |-> sc.maximum * parts - row * sc.interval, den |-> parts, unit |-> 1]

\* lines 73-75: the first value of the first series marks the axis
FirstWrites(sc, lists) ==
    IF isfinite(lists[1][1]) THEN <<Write(sc.rows - scaled(sc, lists[1][1]), offset - 1, symbols[0])>>
    ELSE <<>>

\* lines 103-106
RECURSIVE FillWrites(_, _, _, _)
FillWrites(sc, x, y, end) ==
    IF y >= end THEN <<>>
    ELSE <<Write(sc.rows - y, x + offset, symbols[9])>> \o FillWrites(sc, x, y + 1, end)

\* mutant: the rows between the two corners are left blank
PairWritesNoFill(sc, d0, d1, x) ==
    IF isnan(d0) /\ isnan(d1) THEN <<>>
    ELSE IF isnan(d0) /\ isfinite(d1) THEN <<Write(sc.rows - scaled(sc, d1), x + offset, symbols[2])>>
    ELSE IF isfinite(d0) /\ isnan(d1) THEN <<Write(sc.rows - scaled(sc, d0), x + offset, symbols[3])>>
    ELSE LET y0 == scaled(sc, d0)
             y1 == scaled(sc, d1)
         IN  IF y0 = y1 THEN <<Write(sc.rows - y0, x + offset, symbols[4])>>
             ELSE <<Write(sc.rows - y1, x + offset, IF y0 > y1 THEN symbols[5] ELSE symbols[6]),
                    Write(sc.rows - y0, x + offset, IF y0 > y1 THEN symbols[7] ELSE symbols[8])>>

\* lines 80-106: what the pair of points x, x + 1 of one series writes, in
\* order; the pair is not one that makes scaled() raise
PairWrites(sc, d0, d1, x) ==
    IF isnan(d0) /\ isnan(d1) THEN <<>>
    ELSE IF isnan(d0) /\ isfinite(d1) THEN <<Write(sc.rows - scaled(sc, d1), x + offset, symbols[2])>>
    ELSE IF isfinite(d0) /\ isnan(d1) THEN <<Write(sc.rows - scaled(sc, d0), x + offset, symbols[3])>>
    ELSE LET y0 == scaled(sc, d0)
             y1 == scaled(sc, d1)
         IN  IF y0 = y1 THEN <<Write(sc.rows - y0, x + offset, symbols[4])>>
             ELSE <<Write(sc.rows - y1, x + offset, IF y0 > y1 THEN symbols[5] ELSE symbols[6]),
                    Write(sc.rows - y0, x + offset, IF y0 > y1 THEN symbols[7] ELSE symbols[8])>>
                  \o FillWrites(sc, x, Min(y0, y1) + 1, Max(y0, y1))

\* the pair reaches scaled() with a NaN: one point is NaN and the other is
\* neither NaN nor finite
PairRaises(d0, d1) ==
    /\ ~(isnan(d0) /\ isnan(d1))
    /\ ~(isnan(d0) /\ isfinite(d1))
    /\ ~(isfinite(d0) /\ isnan(d1))
    /\ (scaled_raises(d0) \/ scaled_raises(d1))

\* lines 79-106 for one series, from pair x (counted from 0) on
RECURSIVE SeriesWrites(_, _, _)
SeriesWrites(sc, values, x) ==
    IF x + 2 > Len(values) THEN <<>>
    ELSE PairWrites(sc, values[x + 1], values[x + 2], x) \o SeriesWrites(sc, values, x + 1)

\* lines 77-106 for the series from the i-th on
RECURSIVE AllSeriesWrites(_, _, _)
AllSeriesWrites(sc, lists, i) ==
    IF i > Len(lists) THEN <<>>
    ELSE SeriesWrites(sc, lists[i], 0) \o AllSeriesWrites(sc, lists, i + 1)

\* lines 57-60
Width(lists) ==
    LET longest == SetMax({0} \cup {Len(lists[i]) : i \in 1..Len(lists)}) IN longest + offset

\* a list of n elements takes the indexes -n..n-1, a negative one counted
\* from the end; any other raises IndexError
InRange(k, n) == 0 - n <= k /\ k < n
Index(k, n) == IF k < 0 THEN k + n ELSE k

\* some write of the sequence is outside result, the list of rows + 1 rows
\* of line 64 (of no row when rows + 1 is not positive)
Outside(sc, lists, writes) ==
    \E k \in 1..Len(writes) :
        \/ ~InRange(writes[k].row, Max(sc.rows + 1, 0))
        \/ ~InRange(writes[k].column, Width(lists))

\* lines 77-106 from pair x of the i-th series on: the first pair that makes
\* scaled() raise or that writes outside the grid ends the call
RECURSIVE PairsFailure(_, _, _, _)
PairsFailure(sc, lists, i, x) ==
    IF i > Len(lists) THEN "none"
    ELSE IF x + 2 > Len(lists[i]) THEN PairsFailure(sc, lists, i + 1, 0)
    ELSE IF PairRaises(lists[i][x + 1], lists[i][x + 2])
    THEN "ValueError: cannot convert float NaN to integer"
    ELSE IF Outside(sc, lists, PairWrites(sc, lists[i][x + 1], lists[i][x + 2], x))
    THEN "IndexError"
    ELSE PairsFailure(sc, lists, i, x + 1)

\* lines 67-106: the exception that ends the drawing, if any
Failure(sc, lists) ==
    IF Outside(sc, lists, AxisWrites(sc, sc.min2) \o FirstWrites(sc, lists)) THEN "IndexError"
    ELSE PairsFailure(sc, lists, 1, 0)

\* line 64 and the writes made on it, the last write of a cell standing
Grid(sc, lists) ==
    LET writes == AxisWrites(sc, sc.min2) \o FirstWrites(sc, lists) \o AllSeriesWrites(sc, lists, 1)
        at(r, c) == {k \in 1..Len(writes) : /\ Index(writes[k].row, sc.rows + 1) = r
                                            /\ Index(writes[k].column, Width(lists)) = c}
    IN  [r \in 0..sc.rows |->
            [c \in 0..(Width(lists) - 1) |->
                IF at(r, c) = {} THEN " " ELSE writes[SetMax(at(r, c))].glyph]]

\* mutant: the rows are joined as they are
unstripped(row, width) == [c \in 1..width |-> row[c - 1]]

\* "".join(row).rstrip(): the blank cells at the end of a row are cut
rstrip(row, width) ==
    LET inked == {c \in 0..(width - 1) : row[c] # " "}
    IN  IF inked = {} THEN <<>> ELSE [c \in 1..(SetMax(inked) + 1) |-> row[c - 1]]

Returned(lines, labels) == [raised |-> "none", lines |-> lines, labels |-> labels]
Raised(exception) == [raised |-> exception, lines |-> <<>>, labels |-> <<>>]

\* plot(series, cfg): the lines of the text returned, top first, each a
\* sequence of cells, with the numbers of the labels; or the exception raised
plot(series, cfg) ==
    IF SeriesLen(series) = 0 THEN Returned(<<>>, <<>>)
    ELSE IF ~series.nested /\ \A k \in 1..Len(series.lists[1]) : isnan(series.lists[1][k])
    THEN Returned(<<>>, <<>>)
    ELSE LET lists == series.lists
         IN  IF FiniteValues(lists) = {} THEN Raised("ValueError: min() arg is an empty sequence")
             ELSE LET sc == Scale(ResolvedMinimum(lists, cfg), ResolvedMaximum(lists, cfg), cfg)
                  IN  IF sc.minimum > sc.maximum
                      THEN Raised("ValueError: The min value cannot exceed the max value.")
                      ELSE IF lists[1] = <<>> THEN Raised("IndexError")
                      ELSE IF Failure(sc, lists) # "none" THEN Raised(Failure(sc, lists))
                      ELSE LET grid == Grid(sc, lists)
                           IN  Returned([r \in 1..(sc.rows + 1) |-> rstrip(grid[r - 1], Width(lists))],
                                        [r \in 1..(sc.rows + 1) |-> Label(sc, r - 1)])

\* ---------------------------------------------------------------------
\* parse_btcli_wallets (wallet_utils/btcli.py)
\*
\* A JSON value is None (null), [str |-> s], [list |-> sequence] or
\* [dict |-> function from keys to values].  The text given to the parser
\* is [json |-> whether json.loads accepts it, data |-> the value it yields].
\* ---------------------------------------------------------------------

\* isinstance(value, str / list / dict)
isinstance(value, type) == type \in DOMAIN value

\* dict.get(key): None when the key is absent
get(d, key) == IF key \in DOMAIN d.dict THEN d.dict[key] ELSE None

\* the truth value of a JSON value: None, "", [] and {} are false
truthy(value) ==
    IF isinstance(value, "str") THEN value.str # ""
    ELSE IF isinstance(value, "list") THEN value.list # <<>>
    ELSE IF isinstance(value, "dict") THEN DOMAIN value.dict # {}
    ELSE FALSE

\* a or b
Or(a, b) == IF truthy(a) THEN a ELSE b

\* mutant: only the canonical key of a hotkey's name is read
hotkey_name_canonical(hotkey) == get(hotkey, "name")

\* line 42
hotkey_name(hotkey) == Or(get(hotkey, "name"), get(hotkey, "hotkey_name"))

\* the loop of lines 39-45 over the hotkeys of one coldkey
RECURSIVE normalized_hotkeys(_)
normalized_hotkeys(hotkeys) ==
    IF hotkeys = <<>> THEN <<>>
    ELSE LET hotkey == Head(hotkeys)
             rest == normalized_hotkeys(Tail(hotkeys))
         IN  IF ~isinstance(hotkey, "dict") THEN rest
             ELSE LET hotkey_address == Or(get(hotkey, "ss58_address"), get(hotkey, "address"))
                  IN  IF truthy(hotkey_name(hotkey)) /\ truthy(hotkey_address)
                      THEN <<[name |-> hotkey_name(hotkey), ss58_address |-> hotkey_address]>> \o rest
                      ELSE rest

\* the loop of lines 32-48 over the coldkey candidates
RECURSIVE normalized_coldkeys(_)
normalized_coldkeys(coldkey_candidates) ==
    IF coldkey_candidates = <<>> THEN <<>>
    ELSE LET coldkey == Head(coldkey_candidates)
             rest == normalized_coldkeys(Tail(coldkey_candidates))
         IN  IF ~isinstance(coldkey, "dict") THEN rest
             ELSE LET name == Or(Or(get(coldkey, "name"), get(coldkey, "coldkey_name")),
                                 get(coldkey, "wallet_name"))
                      address == Or(get(coldkey, "ss58_address"), get(coldkey, "address"))
                      hotkeys == Or(Or(get(coldkey, "hotkeys"), get(coldkey, "coldkey_hotkeys")),
                                    [list |-> <<>>])
                  IN  IF truthy(name) /\ truthy(address)
                      THEN <<[name |-> name, ss58_address |-> address,
                              hotkeys |-> normalized_hotkeys(hotkeys.list)]>> \o rest
                      ELSE rest

\* parse_btcli_wallets(raw_output): the exception raised, or the result's "coldkeys"
parse_btcli_wallets(raw_output) ==
    IF ~raw_output.json
    THEN [raised |-> "ValueError", coldkeys |-> <<>>]
    ELSE LET data == raw_output.data
             coldkey_candidates ==
                 IF isinstance(data, "dict")
                 THEN IF isinstance(get(data, "coldkeys"), "list") THEN get(data, "coldkeys").list
                      ELSE IF isinstance(get(data, "wallets"), "list") THEN get(data, "wallets").list
                      ELSE <<>>
                 ELSE IF isinstance(data, "list") THEN data.list
                 ELSE <<>>
         IN  [raised |-> "none", coldkeys |-> normalized_coldkeys(coldkey_candidates)]

\* the keys btcli writes (JSON_OUTPUT of the tests) and the alternate ones (ALT_JSON_OUTPUT)
CanonicalKeys ==
    [coldkeys |-> "coldkeys", name |-> "name", ss58_address |-> "ss58_address",
     hotkeys |-> "hotkeys", hotkey_name |-> "name", hotkey_address |-> "ss58_address"]
AlternateKeys ==
    [coldkeys |-> "wallets", name |-> "wallet_name", ss58_address |-> "address",
     hotkeys |-> "coldkey_hotkeys", hotkey_name |-> "hotkey_name", hotkey_address |-> "address"]

\* the JSON text of a list of wallets under one choice of keys; an entry that
\* is not a wallet is written as a string
Written(wallets, keys) ==
    LET hotkey(h) == [dict |-> (keys.hotkey_name :> [str |-> h.name])
                               @@ (keys.hotkey_address :> [str |-> h.ss58_address])]
        coldkey(c) ==
            IF "junk" \in DOMAIN c THEN [str |-> "junk"]
            ELSE [dict |-> (keys.name :> [str |-> c.name])
                           @@ (keys.ss58_address :> [str |-> c.ss58_address])
                           @@ (keys.hotkeys :>
                                 [list |-> [i \in 1..Len(c.hotkeys) |-> hotkey(c.hotkeys[i])]])]
    IN  [json |-> TRUE,
         data |-> [dict |-> (keys.coldkeys :>
                               [list |-> [i \in 1..Len(wallets) |-> coldkey(wallets[i])]])]]

\* ---- calls on the StatsTracker from outside the pipeline ----

\* the pipeline's own variables, which a call on the tracker leaves alone
pipeline == <<started, stop_event, snapshot_queue, snapshot_task, app_task, dashboard,
              worker_pc, worker_cancel, consecutive_errors, ui_pc, ui_cancel, frame,
              stop_pc, raised, next_id, start_calls>>

\* the arguments callers pass
Stamps == 0..MaxStamp
ByteCounts == (0 - 1)..MaxByteCount
RateWindows == (0 - 1)..MaxWindow
ScalarValues == {None, Some(1)}
Configs ==
    [activation_history_window : {1, DefaultWindow},
     loss_history_size : {1, DefaultLossHistorySize}]

\* a tracker constructed with one of the configurations, nothing started
InitWith(configs) ==
    /\ started = FALSE
    /\ stop_event = FALSE
    /\ snapshot_queue = None
    /\ snapshot_task = None
    /\ app_task = None
    /\ dashboard = None
    /\ worker_pc = "none"
    /\ worker_cancel = FALSE
    /\ consecutive_errors = 0
    /\ ui_pc = "none"
    /\ ui_cancel = FALSE
    /\ frame = "none"
    /\ stop_pc = "idle"
    /\ raised = FALSE
    /\ now = 0
    /\ next_id = 0
    /\ start_calls = 0
    /\ config \in configs
    /\ tracker = StatsTrackerWith(config)
    /\ call = NoCall

InitTracker == InitWith(Configs)

\* a loss capacity below and one above the default
LossConfigs ==
    [activation_history_window : {DefaultWindow},
     loss_history_size : {1, DefaultLossHistorySize + 1}]

InitLoss == InitWith(LossConfigs)

\* the record of a call: its name, its argument, the time and the window its
\* pruning used, what it returned and whether it raised
Called(op, arg, time, window, result, exc) ==
    [op |-> op, seq |-> call.seq + 1, arg |-> arg, time |-> time, window |-> window,
     result |-> result, raised |-> exc]

\* the timestamp a record call uses: the one given, or monotonic()
Timestamp(given, timestamp) == IF given THEN timestamp ELSE now

RecordForwardCall(max_calls, timestamps) ==
    /\ call.seq < max_calls
    /\ \E given \in BOOLEAN, timestamp \in timestamps :
         /\ tracker' = record_forward(tracker, Timestamp(given, timestamp))
         /\ call' = Called("record_forward", 0, Timestamp(given, timestamp),
                           tracker.activation_history_window, None, FALSE)
    /\ UNCHANGED <<pipeline, now, config>>

CallRecordForward == RecordForwardCall(MaxCalls, Stamps)

\* record_forward() once in every second of the clock
CallRecordForwardEverySecond ==
    /\ IF tracker.activations = <<>> THEN TRUE
       ELSE tracker.activations[Len(tracker.activations)].timestamp < now
    /\ RecordForwardCall(MaxRateCalls, {now})

\* a second passes once the record of the present second is made
TickSecond ==
    /\ tracker.activations # <<>>
    /\ tracker.activations[Len(tracker.activations)].timestamp = now
    /\ TickUpTo(MaxSeconds)

RecordBackwardCall(max_calls, timestamps) ==
    /\ call.seq < max_calls
    /\ \E given \in BOOLEAN, timestamp \in timestamps :
         /\ tracker' = record_backward(tracker, Timestamp(given, timestamp))
         /\ call' = Called("record_backward", 0, Timestamp(given, timestamp),
                           tracker.activation_history_window, None, FALSE)
    /\ UNCHANGED <<pipeline, now, config>>

CallRecordBackward == RecordBackwardCall(MaxCalls, Stamps)

RecordDownloadCall(max_calls, byte_counts) ==
    /\ call.seq < max_calls
    /\ \E byte_count \in byte_counts :
         /\ tracker' = record_download(tracker, byte_count)
         /\ call' = Called("record_download", byte_count, now, 0, None,
                           raises_ValueError(byte_count))
    /\ UNCHANGED <<pipeline, now, config>>

CallRecordDownload == RecordDownloadCall(MaxCalls, ByteCounts)

CallRecordUpload ==
    /\ call.seq < MaxCalls
    /\ \E byte_count \in ByteCounts :
         /\ tracker' = record_upload(tracker, byte_count)
         /\ call' = Called("record_upload", byte_count, now, 0, None,
                           raises_ValueError(byte_count))
    /\ UNCHANGED <<pipeline, now, config>>

RecordLossCall(max_calls, loss_values, timestamps) ==
    /\ call.seq < max_calls
    /\ \E loss_value \in loss_values, timestamp \in timestamps :
         /\ tracker' = record_loss(tracker, loss_value, timestamp)
         /\ call' = Called("record_loss", 0, timestamp, 0, None, FALSE)
    /\ UNCHANGED <<pipeline, now, config>>

\* record_loss(loss_value): the timestamp is monotonic()
CallRecordLoss == RecordLossCall(MaxCalls, LossValues, {now})

\* record_loss(1.0, timestamp=k) as the k-th call on the tracker
CallRecordLossStamped == RecordLossCall(MaxLossCalls, {Float(1)}, {call.seq + 1})

CallSetLayer ==
    /\ call.seq < MaxCalls
    /\ \E layer \in ScalarValues : tracker' = set_layer(tracker, layer)
    /\ call' = Called("set_layer", 0, now, 0, None, FALSE)
    /\ UNCHANGED <<pipeline, now, config>>

SetPhaseCall(max_calls, phases) ==
    /\ call.seq < max_calls
    /\ \E phase \in phases : tracker' = set_phase(tracker, phase)
    /\ call' = Called("set_phase", 0, now, 0, None, FALSE)
    /\ UNCHANGED <<pipeline, now, config>>

CallSetPhase == SetPhaseCall(MaxCalls, ScalarValues)

\* the calls made on the tracker while the pipeline runs: record_forward(),
\* set_phase(1) and reset()
CallRecordForwardRunning == RecordForwardCall(MaxFrameCalls, {now})

CallSetPhaseRunning == SetPhaseCall(MaxFrameCalls, {Some(1)})

CallSetRemoteEpoch ==
    /\ call.seq < MaxCalls
    /\ \E epoch \in ScalarValues : tracker' = set_remote_epoch(tracker, epoch)
    /\ call' = Called("set_remote_epoch", 0, now, 0, None, FALSE)
    /\ UNCHANGED <<pipeline, now, config>>

CallSetLocalEpoch ==
    /\ call.seq < MaxCalls
    /\ \E epoch \in ScalarValues : tracker' = set_local_epoch(tracker, epoch)
    /\ call' = Called("set_local_epoch", 0, now, 0, None, FALSE)
    /\ UNCHANGED <<pipeline, now, config>>

CallSetRunId ==
    /\ call.seq < MaxCalls
    /\ \E run_id \in ScalarValues : tracker' = set_run_id(tracker, run_id)
    /\ call' = Called("set_run_id", 0, now, 0, None, FALSE)
    /\ UNCHANGED <<pipeline, now, config>>

ResetCall(max_calls) ==
    /\ call.seq < max_calls
    /\ tracker' = reset(tracker)
    /\ call' = Called("reset", 0, now, 0, None, FALSE)
    /\ UNCHANGED <<pipeline, now, config>>

CallReset == ResetCall(MaxCalls)

\* reset() in a long series of record_loss calls
CallResetInSeries == ResetCall(MaxLossCalls)

\* reset() while the pipeline runs
CallResetRunning == ResetCall(MaxFrameCalls)

\* activation_rate(window_seconds=...): without the argument the window is the
\* tracker's activation_history_window; the clock read is monotonic()
ActivationRateCall(max_calls, windows) ==
    /\ call.seq < max_calls
    /\ \E given \in BOOLEAN, window_seconds \in windows :
         LET window == IF given THEN window_seconds ELSE tracker.activation_history_window
         IN  /\ tracker' = activation_rate_tracker(tracker, now, window)
             /\ call' = Called("activation_rate", 0, now, window,
                               activation_rate(tracker, now, window), FALSE)
    /\ UNCHANGED <<pipeline, now, config>>

CallActivationRate == ActivationRateCall(MaxCalls, RateWindows)

\* activation_rate(window_seconds=60)
CallActivationRateMinute == ActivationRateCall(MaxRateCalls, {60})

\* activation_rate(window_seconds=1)
CallActivationRateSecond == ActivationRateCall(MaxRateCalls, {1})

\* loss_summary(): the tracker is read, nothing is assigned
LossSummaryCall(max_calls) ==
    /\ call.seq < max_calls
    /\ call' = Called("loss_summary", 0, now, 0, loss_summary(tracker), FALSE)
    /\ UNCHANGED <<pipeline, now, config, tracker>>

CallLossSummary == LossSummaryCall(MaxSummaryCalls)

\* the losses of the summary scenarios: 1.0, 2.0, 3.0 and a NaN
SummaryValues == {Float(1), Float(2), Float(3), NaN}

\* record_loss(value) with one of the summary values
CallRecordLossValue == RecordLossCall(MaxSummaryCalls, SummaryValues, {now})

run_tick == RunPass(MaxTimeoutCount)

\* the same pass, followed far enough for the count of empty drains to reach 20
run_tick_stalling == RunPass(MaxStallCount)

\* the lifecycle: start, stop and restart, the two tasks, every failure
Next ==
    \/ start_started
    \/ start_constructor_raises
    \/ start
    \/ stop
    \/ stop_after_snapshot_task
    \/ stop_after_app_task
    \/ _snapshot_worker_built
    \/ _snapshot_worker_failed
    \/ _snapshot_worker_returns
    \/ _snapshot_worker_cancelled
    \/ run_first_render_raises
    \/ run_tick
    \/ _run_dashboard_cancelled

Spec == Init /\ [][Next]_vars

\* the event loop runs every callback that is ready: a task that is to be
\* cancelled gets its CancelledError, a stop() whose awaited task has ended
\* resumes, a worker whose sleep is over finds the stop event set and leaves
Fairness ==
    /\ WF_vars(_snapshot_worker_cancelled)
    /\ WF_vars(_snapshot_worker_returns)
    /\ WF_vars(_run_dashboard_cancelled)
    /\ WF_vars(stop_after_snapshot_task)
    /\ WF_vars(stop_after_app_task)

FairSpec == Spec /\ Fairness

\* one run of the pipeline while the training loop reports to the tracker
NextTelemetry ==
    \/ start
    \/ _snapshot_worker_built
    \/ _snapshot_worker_failed
    \/ run_tick
    \/ RecordForward
    \/ RecordLoss

SpecTelemetry == Init /\ [][NextTelemetry]_vars

\* one run of the pipeline under a passing clock, the renderer followed through a stall
NextStall ==
    \/ start
    \/ _snapshot_worker_built
    \/ _snapshot_worker_failed
    \/ run_tick_stalling
    \/ Tick

SpecStall == Init /\ [][NextStall]_vars

\* a tracker of any configuration and its callers, under a passing clock
NextTracker ==
    \/ CallRecordForward
    \/ CallRecordBackward
    \/ CallRecordDownload
    \/ CallRecordUpload
    \/ CallRecordLoss
    \/ CallSetLayer
    \/ CallSetPhase
    \/ CallSetRemoteEpoch
    \/ CallSetLocalEpoch
    \/ CallSetRunId
    \/ CallReset
    \/ CallActivationRate
    \/ Tick

SpecTracker == InitTracker /\ [][NextTracker]_vars

\* a tracker through a long series of losses, reset at any point
NextLoss ==
    \/ CallRecordLossStamped
    \/ CallResetInSeries
    \/ Tick

SpecLoss == InitLoss /\ [][NextLoss]_vars

\* a default tracker recording one forward pass a second, its rate asked at
\* any moment
InitRate == InitWith({DefaultConfig})

NextRate ==
    \/ CallRecordForwardEverySecond
    \/ TickSecond
    \/ CallActivationRateMinute
    \/ CallActivationRateSecond

SpecRate == InitRate /\ [][NextRate]_vars

\* a tracker of capacity 2 or of the default capacity, a few losses recorded
\* and the summary asked at any moment
SummaryConfigs ==
    [activation_history_window : {DefaultWindow},
     loss_history_size : {2, DefaultLossHistorySize}]

InitSummary == InitWith(SummaryConfigs)

NextSummary ==
    \/ CallRecordLossValue
    \/ CallLossSummary

SpecSummary == InitSummary /\ [][NextSummary]_vars

\* one run of the pipeline while callers record on, set and reset the tracker
NextFrame ==
    \/ start
    \/ _snapshot_worker_built
    \/ run_tick
    \/ CallRecordForwardRunning
    \/ CallSetPhaseRunning
    \/ CallResetRunning

SpecFrame == Init /\ [][NextFrame]_vars

\* a renderer constructed on its own and given snapshot after snapshot
InitIngest ==
    /\ started = FALSE
    /\ stop_event = FALSE
    /\ snapshot_queue = Queue
    /\ snapshot_task = None
    /\ app_task = None
    /\ dashboard = TrainingDashboard
    /\ worker_pc = "none"
    /\ worker_cancel = FALSE
    /\ consecutive_errors = 0
    /\ ui_pc = "none"
    /\ ui_cancel = FALSE
    /\ frame = "none"
    /\ stop_pc = "idle"
    /\ raised = FALSE
    /\ tracker = StatsTracker
    /\ now = 0
    /\ next_id = 0
    /\ start_calls = 0
    /\ config = DefaultConfig
    /\ call = NoCall

\* the first value a history receives is 2.0 and every later one 1.0: the
\* oldest entry of a history can be told from the rest
FreshValue(history) == IF history = <<>> THEN Float(2) ELSE Float(1)

\* latest_loss and loss_average as the three minimal snapshots and
\* _build_snapshot can set them: both absent, or both taken from one
\* loss_summary(), whose avg is NaN as soon as one stored loss is
LossPairs(value) ==
    {[latest_loss |-> None, loss_average |-> None],
     [latest_loss |-> value, loss_average |-> value],
     [latest_loss |-> value, loss_average |-> NaN],
     [latest_loss |-> NaN, loss_average |-> NaN]}

\* update_from_snapshot(snapshot) with a snapshot of any of these values
Ingest ==
    /\ \E losses \in LossPairs(FreshValue(dashboard.loss_history)),
          rate \in {FreshValue(dashboard.activation_rate_history), NaN} :
         dashboard' = update_from_snapshot(dashboard,
             [MinimalSnapshot(0, now, StatusMessage("Ingested", 0))
                 EXCEPT !.latest_loss = losses.latest_loss,
                        !.loss_average = losses.loss_average,
                        !.activation_rate = rate])
    /\ UNCHANGED <<started, stop_event, snapshot_queue, snapshot_task, app_task,
                   worker_pc, worker_cancel, consecutive_errors, ui_pc, ui_cancel, frame,
                   stop_pc, raised, tracker, now, next_id, start_calls, config, call>>

NextIngest == Ingest

SpecIngest == InitIngest /\ [][NextIngest]_vars

\* the sequences over S of at most n elements, and of exactly n
SeqsUpTo(S, n) == UNION {[1..k -> S] : k \in 0..n}
SeqsOf(S, n) == [1..n -> S]

\* the numbers a series given to plot is made of
ChartValues == {Float(0 - 2), Float(0), Float(1), Float(3), NaN, Inf, NegInf}
NestedValues == {Float(1), NaN, Inf}
ShapeValues == {Float(1), Float(2), Float(3)}

\* the arguments of plot: a short series of any values or a list of one or
\* two series, under any configuration of min, max and height; and a series
\* of finite values with a height given or not
ChartInputs(max_points, max_shape_points) ==
    {[series |-> Single(values), cfg |-> Cfg(min_, max_, height)] :
        values \in SeqsUpTo(ChartValues, max_points),
        min_ \in {None, Some(1)}, max_ \in {None, Some(0 - 1), Some(2)},
        height \in {None, Some(2)}}
    \cup
    {[series |-> Nested(lists), cfg |-> Cfg(None, max_, None)] :
        lists \in {<<first>> : first \in SeqsUpTo(NestedValues, max_points)}
                  \cup {<<first, second>> : first \in SeqsUpTo(NestedValues, max_points),
                                            second \in SeqsUpTo(NestedValues, max_points)},
        max_ \in {None, Some(0 - 1)}}
    \cup
    {[series |-> Single(values), cfg |-> Cfg(None, None, height)] :
        values \in SeqsOf(ShapeValues, max_shape_points), height \in {None, Some(4)}}

\* a caller about to call plot with some arguments
InitPlot(inputs) ==
    /\ started = FALSE
    /\ stop_event = FALSE
    /\ snapshot_queue = None
    /\ snapshot_task = None
    /\ app_task = None
    /\ dashboard = None
    /\ worker_pc = "none"
    /\ worker_cancel = FALSE
    /\ consecutive_errors = 0
    /\ ui_pc = "none"
    /\ ui_cancel = FALSE
    /\ frame = "none"
    /\ stop_pc = "idle"
    /\ raised = FALSE
    /\ tracker = StatsTracker
    /\ now = 0
    /\ next_id = 0
    /\ start_calls = 0
    /\ config = DefaultConfig
    /\ \E input \in inputs : call = [NoCall EXCEPT !.arg = input]

InitChart == InitPlot(ChartInputs(MaxPoints, MaxShapePoints))

\* plot(series, cfg)
CallPlot ==
    /\ call.op = "none"
    /\ call' = Called("plot", call.arg, now, 0, plot(call.arg.series, call.arg.cfg), FALSE)
    /\ UNCHANGED <<pipeline, now, config, tracker>>

NextChart == CallPlot

SpecChart == InitChart /\ [][NextChart]_vars

\* a short series of finite values under a configuration of min and height,
\* a height below zero among them
GridInputs(max_points) ==
    {[series |-> Single(values), cfg |-> Cfg(min_, None, height)] :
        values \in SeqsUpTo({Float(0), Float(1), Float(3)}, max_points),
        min_ \in {None, Some(1)},
        height \in {None, Some(2), Some(0 - 1)}}

InitGrid == InitPlot(GridInputs(MaxPoints))

SpecGrid == InitGrid /\ [][CallPlot]_vars

\* one run of the pipeline while the miner makes a few calls on the tracker
\* between the steps of the two tasks
NextBuild ==
    \/ start
    \/ _snapshot_worker_built
    \/ run_tick
    \/ RecordBackwardCall(MaxFrameCalls, {now})
    \/ RecordDownloadCall(MaxFrameCalls, {1})
    \/ CallSetPhaseRunning
    \/ call.seq < MaxFrameCalls /\ CallSetRemoteEpoch
    \/ CallResetRunning

SpecBuild == Init /\ [][NextBuild]_vars

\* the texts given to parse_btcli_wallets: text that is not JSON, and lists of
\* wallets (names and addresses may be empty) written under either choice of keys
WalletInputs(max_coldkeys, max_hotkeys) ==
    LET Hotkeys == {[name |-> n, ss58_address |-> "5HKz"] : n \in {"", "iota_miner"}}
        Coldkeys == {[name |-> n, ss58_address |-> a, hotkeys |-> h] :
                        n \in {"", "iota"}, a \in {"", "5EEm"},
                        h \in SeqsUpTo(Hotkeys, max_hotkeys)}
                    \cup {[junk |-> TRUE]}
    IN  {[wallets |-> w, keys |-> k, text |-> Written(w, k)] :
            w \in SeqsUpTo(Coldkeys, max_coldkeys), k \in {CanonicalKeys, AlternateKeys}}
        \cup {[wallets |-> <<>>, keys |-> CanonicalKeys, text |-> [json |-> FALSE, data |-> None]]}

\* a caller about to call parse_btcli_wallets with some text
InitWallets ==
    /\ started = FALSE
    /\ stop_event = FALSE
    /\ snapshot_queue = None
    /\ snapshot_task = None
    /\ app_task = None
    /\ dashboard = None
    /\ worker_pc = "none"
    /\ worker_cancel = FALSE
    /\ consecutive_errors = 0
    /\ ui_pc = "none"
    /\ ui_cancel = FALSE
    /\ frame = "none"
    /\ stop_pc = "idle"
    /\ raised = FALSE
    /\ tracker = StatsTracker
    /\ now = 0
    /\ next_id = 0
    /\ start_calls = 0
    /\ config = DefaultConfig
    /\ \E input \in WalletInputs(MaxColdkeys, MaxHotkeys) : call = [NoCall EXCEPT !.arg = input]

\* parse_btcli_wallets(raw_output)
CallParse ==
    /\ call.op = "none"
    /\ call' = Called("parse_btcli_wallets", call.arg, now, 0,
                      parse_btcli_wallets(call.arg.text), ~call.arg.text.json)
    /\ UNCHANGED <<pipeline, now, config, tracker>>

SpecWallets == InitWallets /\ [][CallParse]_vars

\* mutant: stop() sets the stop flag before it looks at _started
stop_not_started_sets_flag ==
    /\ ~raised
    /\ ~started
    /\ call.op = "none"
    /\ call' = Called("stop", 0, now, 0, None, FALSE)
    /\ stop_event' = TRUE
    /\ UNCHANGED <<started, snapshot_queue, snapshot_task, app_task, dashboard,
                   worker_pc, worker_cancel, consecutive_errors, ui_pc, ui_cancel, frame,
                   stop_pc, raised, tracker, now, next_id, start_calls, config>>

\* stop() on a dashboard that is not started returns at line 100; the call is
\* put on record
stop_not_started ==
    /\ ~raised
    /\ ~started
    /\ call.op = "none"
    /\ call' = Called("stop", 0, now, 0, None, FALSE)
    /\ UNCHANGED <<started, stop_event, snapshot_queue, snapshot_task, app_task, dashboard,
                   worker_pc, worker_cancel, consecutive_errors, ui_pc, ui_cancel, frame,
                   stop_pc, raised, tracker, now, next_id, start_calls, config>>

\* the lifecycle with a stop() on a dashboard that is not started
SpecStop == Init /\ [][Next \/ stop_not_started]_vars

\* update_from_snapshot(snapshot) with one of the three all-defaults snapshots
IngestPlaceholder ==
    /\ \E text \in {"Dashboard starting...", "Error building snapshot", "Waiting for snapshots"} :
         dashboard' = update_from_snapshot(dashboard, MinimalSnapshot(0, now, StatusMessage(text, 0)))
    /\ UNCHANGED <<started, stop_event, snapshot_queue, snapshot_task, app_task,
                   worker_pc, worker_cancel, consecutive_errors, ui_pc, ui_cancel, frame,
                   stop_pc, raised, tracker, now, next_id, start_calls, config, call>>

\* the entries the renderer's histories hold
Ingested == Len(dashboard.loss_history) + Len(dashboard.activation_rate_history)

\* a renderer on its own, given snapshots and placeholders by its caller; or
\* one run of the pipeline, started after the training loop reported its
\* losses, with the renderer followed through a stall
SpecPlaceholder ==
    (Init \/ InitIngest)
    /\ [][\/ start
          \/ _snapshot_worker_built
          \/ _snapshot_worker_failed
          \/ run_tick_stalling
          \/ (~started /\ RecordLoss)
          \/ (~started /\ dashboard # None /\ Ingested < MaxIngests /\ Ingest)
          \/ (~started /\ dashboard # None /\ Ingested < MaxIngests /\ IngestPlaceholder)]_vars

\* ---- two stop() calls in flight ----
\* Both calls hold the same two task handles (line 103).  When a task ends,
\* the loop resumes the coroutines awaiting it one after the other, in the
\* order they began to wait.  stop_pc then takes the values
\* "both_await_snapshot_task", "both_await_app_task" and "second_resumes":
\* the first call has returned and the resumption of the second is queued.

\* a second stop() is called while the first awaits a task that has not ended:
\* it sets the event, cancels the same task (or passes the ended snapshot task
\* and cancels the UI task) and awaits it
stop_overlapping ==
    /\ ~raised
    /\ started
    /\ \/ /\ stop_pc = "await_snapshot_task"
          /\ worker_pc \notin Done
          /\ stop_pc' = "both_await_snapshot_task"
       \/ /\ stop_pc = "await_app_task"
          /\ ui_pc \notin Done
          /\ stop_pc' = "both_await_app_task"
    /\ stop_event' = TRUE
    /\ UNCHANGED <<started, snapshot_queue, snapshot_task, app_task, dashboard, worker_pc,
                   worker_cancel, consecutive_errors, ui_pc, ui_cancel, frame, raised, tracker,
                   now, next_id, start_calls, config, call>>

\* the snapshot task has ended: the first stop() goes on to the UI task and
\* awaits it, and so does the second; if the UI task has ended too, the first
\* stop() runs to its end and returns to its caller
stops_after_snapshot_task ==
    /\ stop_pc = "both_await_snapshot_task"
    /\ worker_pc \in Done
    /\ IF app_task = None \/ ui_pc \in Done
       THEN /\ snapshot_queue' = None
            /\ snapshot_task' = None
            /\ app_task' = None
            /\ dashboard' = None
            /\ started' = FALSE
            /\ stop_pc' = "second_resumes"
            /\ UNCHANGED ui_cancel
       ELSE /\ ui_cancel' = TRUE
            /\ stop_pc' = "both_await_app_task"
            /\ UNCHANGED <<snapshot_queue, snapshot_task, app_task, dashboard, started>>
    /\ UNCHANGED <<stop_event, worker_pc, worker_cancel, consecutive_errors, ui_pc, frame,
                   raised, tracker, now, next_id, start_calls, config, call>>

\* the UI task has ended: the first stop() runs lines 110-114 and returns
stops_after_app_task ==
    /\ stop_pc = "both_await_app_task"
    /\ ui_pc \in Done
    /\ snapshot_queue' = None
    /\ snapshot_task' = None
    /\ app_task' = None
    /\ dashboard' = None
    /\ started' = FALSE
    /\ stop_pc' = "second_resumes"
    /\ UNCHANGED <<stop_event, worker_pc, worker_cancel, consecutive_errors, ui_pc, ui_cancel,
                   frame, raised, tracker, now, next_id, start_calls, config, call>>

\* the second stop() resumes: the tasks it holds have ended, so it runs
\* lines 110-114 on the fields as they are now
second_stop_resumes ==
    /\ stop_pc = "second_resumes"
    /\ snapshot_queue' = None
    /\ snapshot_task' = None
    /\ app_task' = None
    /\ dashboard' = None
    /\ started' = FALSE
    /\ stop_pc' = "idle"
    /\ UNCHANGED <<stop_event, worker_pc, worker_cancel, consecutive_errors, ui_pc, ui_cancel,
                   frame, raised, tracker, now, next_id, start_calls, config, call>>

\* the first step of the UI task finds no dashboard and returns at line 119,
\* before the try whose finally clause sets the stop event
_run_dashboard_returns ==
    /\ UiRuns
    /\ ui_pc = "created"
    /\ dashboard = None
    /\ ui_pc' = "returned"
    /\ UNCHANGED <<started, stop_event, snapshot_queue, snapshot_task, app_task, dashboard,
                   worker_pc, worker_cancel, consecutive_errors, ui_cancel, frame, stop_pc,
                   raised, tracker, now, next_id, start_calls, config, call>>

\* start() and stop() called by two callers.  The resumption of the second
\* stop() was queued before the first step of any task created since, so it
\* runs first; start() is followed only from a state with no task left over.
SpecOverlap ==
    Init /\ [][\/ (worker_pc \in Done \cup {"none"} /\ ui_pc \in Done \cup {"none"} /\ start)
               \/ stop
               \/ stop_after_snapshot_task
               \/ stop_after_app_task
               \/ stop_overlapping
               \/ stops_after_snapshot_task
               \/ stops_after_app_task
               \/ second_stop_resumes
               \/ (stop_pc # "second_resumes" /\ _snapshot_worker_built)
               \/ (stop_pc # "second_resumes" /\ _snapshot_worker_returns)
               \/ (stop_pc # "second_resumes" /\ _snapshot_worker_cancelled)
               \/ (stop_pc # "second_resumes" /\ run_tick)
               \/ (stop_pc # "second_resumes" /\ _run_dashboard_returns)
               \/ (stop_pc # "second_resumes" /\ _run_dashboard_cancelled)]_vars

\* ---------------------------------------------------------------------
\* Properties
\* ---------------------------------------------------------------------

Last(seq) == seq[Len(seq)]
Front(seq) == SubSeq(seq, 1, Len(seq) - 1)

\* a step that is one pass of the worker's loop: the worker is left asleep, a
\* snapshot object was constructed and the renderer's state was not touched
WorkerPass ==
    /\ worker_pc' \in WorkerSleeps
    /\ next_id' # next_id
    /\ dashboard' = dashboard

\* a step that is one pass of the renderer's loop
UiPass ==
    /\ dashboard # None
    /\ dashboard' # None
    /\ dashboard' # dashboard

\* C1: the channel never holds more than 5 snapshots, and every snapshot the
\* worker publishes is admitted at the tail of the channel, the oldest queued
\* snapshot (and nothing else) leaving when the channel was full, so that 7
\* publications without a drain leave the 5 most recent, in publication order.
C1_ChannelDropsOldest ==
    [][/\ snapshot_queue' # None => Len(snapshot_queue'.items) <= 5
       /\ WorkerPass =>
            /\ snapshot_queue' # None
            /\ snapshot_queue'.items # <<>>
            /\ Last(snapshot_queue'.items).id = next_id
            /\ Front(snapshot_queue'.items) =
                 IF Len(snapshot_queue.items) = 5
                 THEN Tail(snapshot_queue.items) ELSE snapshot_queue.items]_vars

\* C1 witness: start() queued snapshot 0, the worker published 1, the renderer
\* drained once, and the worker published 2..8 (7 snapshots) with no drain; 4..8 are queued
C1_Witness ==
    /\ dashboard # None
    /\ dashboard.current_snapshot # None
    /\ dashboard.current_snapshot.id = 1
    /\ dashboard.snapshot_timeout_count = 0
    /\ snapshot_queue # None
    /\ [i \in 1..Len(snapshot_queue.items) |-> snapshot_queue.items[i].id] = <<4, 5, 6, 7, 8>>

C3_BackoffFromFifthFailure ==
    /\ worker_pc = "sleep_after_success" =>
         consecutive_errors = 0 /\ SleepDelay(worker_pc) = RefreshInterval
    /\ worker_pc = "sleep_after_error" =>
         consecutive_errors \in 1..4 /\ SleepDelay(worker_pc) = RefreshInterval
    /\ worker_pc = "sleep_backoff" =>
         consecutive_errors >= 5 /\ SleepDelay(worker_pc) = 2 * RefreshInterval
    /\ worker_pc \in WorkerSleeps \/ consecutive_errors = 0

\* C3 witness: six failures in a row, the worker in its doubled sleep
C3_Witness == worker_pc = "sleep_backoff" /\ consecutive_errors = 6

\* what ingesting exactly one snapshot makes of a history: at most one value more
AfterOne(history, value) == {history, Append(history, value)}

\* C4: a pass of the renderer leaves the channel empty and, when anything was
\* queued, makes the newest queued snapshot the current one; the histories
\* gain at most one value each, taken from that snapshot alone.
C4_DrainKeepsNewestOnly ==
    [][UiPass =>
         /\ snapshot_queue'.items = <<>>
         /\ snapshot_queue.items # <<>> =>
              LET newest == Last(snapshot_queue.items)
              IN  /\ dashboard'.current_snapshot = newest
                  /\ dashboard'.activation_rate_history \in
                       AfterOne(dashboard.activation_rate_history, newest.activation_rate)
                  /\ dashboard'.throughput_history = dashboard'.activation_rate_history
                  /\ dashboard'.loss_history \in
                       IF newest.latest_loss = None THEN {dashboard.loss_history}
                       ELSE AfterOne(dashboard.loss_history, newest.latest_loss)
                  /\ dashboard'.snapshot_timeout_count = dashboard.snapshot_timeout_count]_vars

\* C4 witness: the first pass found three snapshots queued, the newest of
\* them a real one with a finite loss, and took one value per history from it
C4_Witness ==
    /\ dashboard # None
    /\ dashboard.current_snapshot # None
    /\ dashboard.current_snapshot.id = 2
    /\ dashboard.current_snapshot.latest_loss = Float(1)
    /\ dashboard.loss_history = <<Float(1)>>
    /\ Len(dashboard.activation_rate_history) = 1
    /\ dashboard.snapshot_timeout_count = 0

\* C5 as claimed: the render loop ends by cancellation only, so the UI task
\* never returns on its own.
C5_RenderLoopEndsOnlyByCancellation == ui_pc # "returned"

\* C6 as claimed: no failure inside the pipeline reaches the caller of start()
\* or stop() as an exception.
C6_NoFailureReachesCaller == ~raised

\* C7: from start() to the first step of the UI task the startup placeholder
\* heads the channel, and once the UI task has made its first pass the renderer
\* has a current snapshot.
C7_FirstDrainYieldsSnapshot ==
    /\ ui_pc = "created" =>
         /\ snapshot_queue # None
         /\ snapshot_queue.items # <<>>
         /\ snapshot_queue.items[1].status_message = StatusMessage("Dashboard starting...", 0)
    /\ ui_pc = "sleep" =>
         /\ dashboard # None
         /\ dashboard.current_snapshot # None

\* C7 witness: no build has succeeded and no worker pass has run, yet after its
\* first pass the renderer shows the startup placeholder
C7_Witness ==
    /\ ui_pc = "sleep"
    /\ worker_pc = "cancelled"
    /\ dashboard.current_snapshot.status_message = StatusMessage("Dashboard starting...", 0)
    /\ dashboard.snapshot_timeout_count = 0

\* C8: a start() call on a started dashboard changes nothing: no channel, no
\* renderer state, no task, no publication, the stop event as it was.
C8_StartIsIdempotent ==
    [][(started /\ start_calls' # start_calls) =>
         UNCHANGED <<started, stop_event, snapshot_queue, snapshot_task, app_task, dashboard,
                     worker_pc, worker_cancel, consecutive_errors, ui_pc, ui_cancel, frame,
                     stop_pc, raised, tracker, now, next_id>>]_vars

\* C8 witness: one start() has taken effect and a second call has returned
C8_Witness == started /\ next_id = 1 /\ start_calls = 0

\* C9: a stop() that has suspended resumes and returns; when stop() returns both
\* tasks have ended, the channel, the task handles and the renderer are released
\* and the dashboard is stopped; the start() after it makes a new channel that
\* holds only what this start() put, a new renderer and two tasks that have not run.
C9_StopCompletesAndReleases ==
    /\ [](stop_pc # "idle" => <>(stop_pc = "idle"))
    /\ [][(started /\ ~started') =>
            /\ worker_pc' \in Done
            /\ ui_pc' \in Done
            /\ snapshot_queue' = None
            /\ snapshot_task' = None
            /\ app_task' = None
            /\ dashboard' = None
            /\ stop_pc' = "idle"]_vars
    /\ [][(~started /\ started') =>
            /\ ~stop_event'
            /\ snapshot_queue' # None
            /\ \A i \in 1..Len(snapshot_queue'.items) : snapshot_queue'.items[i].id >= next_id
            /\ dashboard' = TrainingDashboard
            /\ worker_pc' = "created" /\ ~worker_cancel'
            /\ ui_pc' = "created" /\ ~ui_cancel']_vars

\* C9 witness: the dashboard was started a second time after a stop() that had
\* to cancel both tasks, and that stop() has returned
C9_Witness ==
    /\ started
    /\ stop_pc = "idle"
    /\ worker_pc = "created"
    /\ ui_pc = "created"
    /\ snapshot_queue.items[1].id >= 2

\* C10: the generation time of the renderer's current snapshot never decreases
\* while the clock the snapshots are stamped with does not run backwards.
C10_GenerationTimeMonotonic ==
    [][(/\ dashboard # None /\ dashboard' # None
        /\ dashboard.current_snapshot # None /\ dashboard'.current_snapshot # None) =>
         dashboard'.current_snapshot.generated_at >= dashboard.current_snapshot.generated_at]_vars

\* C10 witness: the renderer holds a stall placeholder it made itself after the
\* clock had advanced
C10_Witness ==
    /\ dashboard # None
    /\ dashboard.current_snapshot # None
    /\ dashboard.current_snapshot.status_message.text = "Waiting for snapshots"
    /\ dashboard.current_snapshot.generated_at = MaxTime

\* a step in which the worker constructed a snapshot and handed it to
\* _publish_snapshot, wherever that left the worker
WorkerPublishes ==
    /\ worker_pc' \in WorkerSleeps \cup {"await_put"}
    /\ next_id' # next_id
    /\ dashboard' = dashboard

\* C11: the worker is never left waiting inside a publish, and every publish
\* ends within the worker's own step with the new snapshot at the tail of the
\* channel, full or not.
C11_PublishNeverWaits ==
    /\ [](worker_pc # "await_put")
    /\ [][WorkerPublishes =>
            /\ worker_pc' \in WorkerSleeps
            /\ snapshot_queue'.items # <<>>
            /\ Last(snapshot_queue'.items).id = next_id]_vars

\* C11 witness: the worker sleeps after a publish on a full channel, which
\* pushed out a snapshot the renderer never drained
C11_Witness ==
    /\ worker_pc \in WorkerSleeps
    /\ dashboard # None
    /\ dashboard.current_snapshot # None
    /\ Len(snapshot_queue.items) = QueueMaxSize
    /\ snapshot_queue.items[1].id > dashboard.current_snapshot.id + 1
    /\ Last(snapshot_queue.items).id = next_id - 1

\* C12 as claimed: on a renderer tick whose drain is empty and which is at least
\* the 11th empty tick in a row, a stall placeholder is made and ingested.  The
\* run looked at is the one in which the only snapshots ever published (the
\* startup placeholder and the worker's first) were drained by the first tick,
\* so that every empty tick counted follows the other without a gap.
C12_StallPlaceholderOnEveryStalledTick ==
    [][(/\ dashboard # None /\ dashboard' # None
        /\ dashboard.current_snapshot # None
        /\ dashboard.current_snapshot.id = 1 /\ next_id = 2
        /\ snapshot_queue.items = <<>>
        /\ dashboard'.snapshot_timeout_count = dashboard.snapshot_timeout_count + 1
        /\ dashboard'.snapshot_timeout_count > StallThreshold) =>
         /\ dashboard'.current_snapshot.id = next_id
         /\ dashboard'.current_snapshot.status_message.text = "Waiting for snapshots"]_vars

\* a step that is a call of the named method on the tracker
IsCall(op) == call'.seq # call.seq /\ call'.op = op

\* C13: total_activations is the sum of the two counts, which are never
\* negative; record_forward adds 1 to the forward count alone, record_backward
\* adds 1 to the backward count alone, and no step other than reset() lowers
\* either count.
C13_ActivationCounts ==
    /\ [](/\ total_activations(tracker) = tracker.forward_count + tracker.backward_count
          /\ tracker.forward_count >= 0
          /\ tracker.backward_count >= 0)
    /\ [][IsCall("record_forward") =>
            /\ tracker'.forward_count = tracker.forward_count + 1
            /\ tracker'.backward_count = tracker.backward_count]_vars
    /\ [][IsCall("record_backward") =>
            /\ tracker'.backward_count = tracker.backward_count + 1
            /\ tracker'.forward_count = tracker.forward_count]_vars
    /\ [][~IsCall("reset") =>
            /\ tracker'.forward_count >= tracker.forward_count
            /\ tracker'.backward_count >= tracker.backward_count]_vars

\* C13 witness: two forward records and a backward one have been counted
C13_Witness ==
    /\ call.op = "record_backward"
    /\ tracker.forward_count = 2
    /\ tracker.backward_count = 1
    /\ total_activations(tracker) = 3

\* C14: record_download(n) and record_upload(n) raise on a negative n and then
\* leave the whole tracker as it was; otherwise they add n to their own total
\* and touch nothing else; both totals are never negative and only reset()
\* lowers them.
C14_ByteTotals ==
    /\ [](tracker.download_bytes >= 0 /\ tracker.upload_bytes >= 0)
    /\ [][IsCall("record_download") =>
            IF call'.arg < 0 THEN call'.raised /\ tracker' = tracker
            ELSE /\ ~call'.raised
                 /\ tracker' = [tracker EXCEPT !.download_bytes = @ + call'.arg]]_vars
    /\ [][IsCall("record_upload") =>
            IF call'.arg < 0 THEN call'.raised /\ tracker' = tracker
            ELSE /\ ~call'.raised
                 /\ tracker' = [tracker EXCEPT !.upload_bytes = @ + call'.arg]]_vars
    /\ [][~IsCall("reset") =>
            /\ tracker'.download_bytes >= tracker.download_bytes
            /\ tracker'.upload_bytes >= tracker.upload_bytes]_vars

\* C14 witness: a record_upload(-1) has raised on a tracker that had counted a
\* download, and the totals are what they were
C14_Witness ==
    /\ call.op = "record_upload"
    /\ call.arg < 0
    /\ call.raised
    /\ tracker.download_bytes = 1
    /\ tracker.upload_bytes = 0

\* C15 as claimed: after a call that ends or starts with a pruning, no stored
\* activation sample is older than the pruning time minus the window used.
C15_NoSampleOlderThanWindow ==
    call.op \in {"record_forward", "record_backward", "activation_rate"} =>
        \A i \in 1..Len(tracker.activations) :
            tracker.activations[i].timestamp >= call.time - call.window

\* C16 as claimed: the tracker never stores more loss samples than its
\* loss_history_size, reset() or not.
C16_LossHistoryWithinCapacity == Len(tracker.loss_history) <= tracker.loss_history_size

\* C17 as claimed: after reset() the tracker is as it was constructed: counters
\* and scalar fields initial, both sample sequences empty, and the activation
\* window and the loss capacity those given to the constructor.
C17_ResetPreservesConfiguration == call.op = "reset" => tracker = StatsTrackerWith(config)

\* what the queries of a tracker return at the given time; activation_rate is
\* asked without a window and with each window callers pass
Queries(t, time) ==
    [forward_count |-> t.forward_count, backward_count |-> t.backward_count,
     total_activations |-> total_activations(t),
     download_bytes |-> t.download_bytes, upload_bytes |-> t.upload_bytes,
     loss_summary |-> loss_summary(t),
     activation_rate |-> activation_rate(t, time, t.activation_history_window),
     activation_rate_window |-> [w \in RateWindows |-> activation_rate(t, time, w)],
     current_layer |-> t.current_layer, current_phase |-> t.current_phase,
     remote_epoch |-> t.remote_epoch, local_epoch |-> t.local_epoch, run_id |-> t.run_id]

\* C18: right after reset() every query returns what it returns on a tracker
\* just constructed.
C18_QueriesAfterResetAsFresh ==
    call.op = "reset" => Queries(tracker, now) = Queries(StatsTrackerWith(config), now)

\* C18 witness: reset() was the third call on a tracker constructed with a
\* window of its own, and has left another window behind
C18_Witness ==
    /\ call.op = "reset"
    /\ call.seq = 3
    /\ tracker.activation_history_window # config.activation_history_window

\* the samples of a sequence that are within the window at the given time
InWindow(acts, time, window) ==
    {i \in 1..Len(acts) : time - acts[i].timestamp <= window}

AtMost(x, p, d) ==
    IF x.unit = 1 THEN x.num * d <= p * x.den
    ELSE (x.num * d - p * (x.den \div Micro)) * Micro <= p * (x.den % Micro)

\* a float with a positive denominator is at least p / d
AtLeast(x, p, d) ==
    IF x.unit = 1 THEN x.num * d >= p * x.den
    ELSE (x.num * d - p * (x.den \div Micro)) * Micro >= p * (x.den % Micro)

\* the tracker holds exactly 60 forward samples one second apart, the last one
\* made at the present time
SixtyRecordsEndingNow ==
    /\ tracker.forward_count = 60
    /\ tracker.backward_count = 0
    /\ Len(tracker.activations) = 60
    /\ \A i \in 1..60 : tracker.activations[i].timestamp = now - 60 + i

\* C20: after 60 forward records one second apart, the last at time T,
\* activation_rate(window=60) at T returns 60.0 within half an activation a
\* minute, and no sample stored afterwards is older than T - 60.
C20_SixtyRecordsRateSixty ==
    [][(SixtyRecordsEndingNow /\ IsCall("activation_rate") /\ call'.window = 60) =>
         /\ AtLeast(call'.result, 119, 2)
         /\ AtMost(call'.result, 121, 2)
         /\ \A i \in 1..Len(tracker'.activations) :
              tracker'.activations[i].timestamp >= call'.time - 60]_vars

\* the values of the stored loss samples, oldest first
StoredLosses == [i \in 1..Len(tracker.loss_history) |-> tracker.loss_history[i].value]

\* C21: loss_summary() returns None exactly when no loss sample is stored;
\* otherwise count is the number of stored samples, min and max are stored
\* values that no stored value is below (above), avg is their sum over their
\* number (NaN as soon as one is NaN) and latest is the value recorded last.
C21_LossSummaryOverStored ==
    call.op = "loss_summary" =>
        IF tracker.loss_history = <<>> THEN call.result = None
        ELSE LET stored == StoredLosses
                 every == 1..Len(stored)
                 result == call.result
             IN  /\ result # None
                 /\ result.count = Len(stored)
                 /\ Len(stored) <= config.loss_history_size
                 /\ \E i \in every : result.min = stored[i]
                 /\ \A i \in every : ~lt(stored[i], result.min)
                 /\ \E i \in every : result.max = stored[i]
                 /\ \A i \in every : ~lt(result.max, stored[i])
                 /\ IF \A i \in every : isfinite(stored[i])
                    THEN /\ isfinite(result.avg)
                         /\ result.avg.num * result.avg.unit * Len(stored)
                              = SumLoss(stored).num * result.avg.den
                    ELSE ~isfinite(result.avg)
                 /\ result.latest = stored[Len(stored)]

\* C21 witness: 1.0, 2.0 and 3.0 recorded, the summary is count 3, min 1.0,
\* max 3.0, avg 2.0 and latest 3.0
C21_Witness ==
    /\ call.op = "loss_summary"
    /\ StoredLosses = <<Float(1), Float(2), Float(3)>>
    /\ call.result.count = 3
    /\ call.result.min = Float(1)
    /\ call.result.max = Float(3)
    /\ call.result.avg = [num |-> 6, den |-> 3, unit |-> 1]
    /\ call.result.latest = Float(3)

\* C22: activation_rate, with any window, changes no counter, scalar field or
\* loss sample, and leaves unchanged what activation_rate returns at the same
\* instant for every window.
C22_ActivationRateReadOnly ==
    [][IsCall("activation_rate") =>
         /\ [tracker' EXCEPT !.activations = <<>>] = [tracker EXCEPT !.activations = <<>>]
         /\ \A w \in RateWindows \cup {60, DefaultWindow} :
              activation_rate(tracker', call'.time, w) = activation_rate(tracker, call'.time, w)]_vars

\* what a history is after one more value: the oldest entry has left if it
\* held 50
Appended(history, value) ==
    IF Len(history) < 50 THEN Append(history, value) ELSE Append(Tail(history), value)

\* C23: ingesting a snapshot leaves a history within 50 entries, all finite;
\* the loss history is unchanged if the snapshot's loss is absent or not
\* finite and the rate history is unchanged if its rate is not finite;
\* otherwise the value is appended and the oldest entry leaves a full history.
C23_HistoriesBoundedAndFinite ==
    [][(dashboard # None /\ dashboard' # None /\ dashboard' # dashboard
           /\ dashboard'.current_snapshot # None) =>
         LET snapshot == dashboard'.current_snapshot
             stalled == dashboard'.snapshot_timeout_count # dashboard.snapshot_timeout_count
             ingested == dashboard'.current_snapshot # dashboard.current_snapshot
                         \/ dashboard'.loss_history # dashboard.loss_history
                         \/ dashboard'.activation_rate_history # dashboard.activation_rate_history
         IN  /\ Len(dashboard'.loss_history) <= 50
             /\ Len(dashboard'.activation_rate_history) <= 50
             /\ \A i \in 1..Len(dashboard'.loss_history) : isfinite(dashboard'.loss_history[i])
             /\ \A i \in 1..Len(dashboard'.activation_rate_history) :
                  isfinite(dashboard'.activation_rate_history[i])
             /\ (ingested /\ ~stalled) =>
                  /\ dashboard'.loss_history =
                       IF snapshot.latest_loss = None \/ ~isfinite(snapshot.latest_loss)
                       THEN dashboard.loss_history
                       ELSE Appended(dashboard.loss_history, snapshot.latest_loss)
                  /\ dashboard'.activation_rate_history =
                       IF ~isfinite(snapshot.activation_rate)
                       THEN dashboard.activation_rate_history
                       ELSE Appended(dashboard.activation_rate_history, snapshot.activation_rate)]_vars

\* C23 witness: both histories are full and have lost their first entry, and
\* the snapshot ingested last had neither a finite loss nor a finite rate
C23_Witness ==
    /\ dashboard # None
    /\ dashboard.loss_history = [i \in 1..50 |-> Float(1)]
    /\ dashboard.activation_rate_history = [i \in 1..50 |-> Float(1)]
    /\ dashboard.current_snapshot # None
    /\ dashboard.current_snapshot.latest_loss = NaN
    /\ dashboard.current_snapshot.activation_rate = NaN

\* the snapshots queued on the channel or held as the renderer's current one
Held(q, d) ==
    (IF q = None THEN {} ELSE {q.items[i] : i \in 1..Len(q.items)})
    \cup (IF d = None THEN {} ELSE IF d.current_snapshot = None THEN {} ELSE {d.current_snapshot})

\* C24: whatever the step (a record, set or reset on the tracker, a publish
\* with or without eviction, a drain, a render), a snapshot that is queued or
\* current before the step and still queued or current after it has all its
\* fields as before; the renderer's current snapshot is one snapshot that was
\* constructed.
C24_SnapshotsNeverChange ==
    [][/\ \A before \in Held(snapshot_queue, dashboard) :
            \A after \in Held(snapshot_queue', dashboard') :
                after.id = before.id => after = before
       /\ \A s \in Held(snapshot_queue', dashboard') : s.id \in 0..(next_id' - 1)]_vars

\* C24 witness: the phase was set after a snapshot was built; the snapshot,
\* still queued or current, shows no phase
C24_Witness ==
    /\ call.op = "set_phase"
    /\ tracker.current_phase # None
    /\ \E s \in Held(snapshot_queue, dashboard) :
         /\ s.status_message.text = "Collecting miner metrics"
         /\ s.phase = None

\* every value of every series given is NaN (none at all if they are empty)
NoData(series) ==
    \A i \in 1..Len(series.lists) : \A k \in 1..Len(series.lists[i]) : isnan(series.lists[i][k])

\* C25: plot returns the empty output when the series is empty or holds only
\* NaN, for one series and for a list of series alike.
C25_EmptyOutputWithoutData ==
    (call.op = "plot" /\ NoData(call.arg.series)) =>
        /\ call.result.raised = "none"
        /\ call.result.lines = <<>>

\* the finite numbers among the values given to plot
FiniteData(series) ==
    UNION {{series.lists[i][k].num : k \in {j \in 1..Len(series.lists[i]) : isfinite(series.lists[i][j])}} :
              i \in 1..Len(series.lists)}

MinExceedsMax == "ValueError: The min value cannot exceed the max value."

ChartReturned == call.op = "plot" /\ call.result.raised = "none" /\ call.result.lines # <<>>

\* C27: a chart returned by plot has ceil(max * ratio) - floor(min * ratio) + 1
\* lines, where ratio is height / (max - min), or 1 when max = min, and
\* height is max - min unless configured; the lines are labelled from max at
\* the top down to min at the bottom, none is empty and none ends in
\* whitespace. For [1, 2, 3, 2, 1] with height 4 that is 5 lines.
C27_RowsTopToBottomStripped ==
    ChartReturned =>
        LET lines == call.result.lines
            labels == call.result.labels
            data == FiniteData(call.arg.series)
            cfg == call.arg.cfg
            least == CHOOSE m \in data : \A n \in data : m <= n
            greatest == CHOOSE m \in data : \A n \in data : m >= n
            minimum == IF cfg.min # None THEN cfg.min.some ELSE IF least < 0 THEN least ELSE 0
            maximum == IF cfg.max # None THEN cfg.max.some ELSE greatest
            range == maximum - minimum
            height == IF cfg.height # None THEN cfg.height.some ELSE range
            floor_min == IF range > 0 THEN (minimum * height) \div range ELSE minimum
            ceil_max == IF range > 0 THEN 0 - ((0 - maximum * height) \div range) ELSE maximum
        IN  /\ Len(lines) = ceil_max - floor_min + 1
            /\ Len(labels) = Len(lines)
            /\ labels[1].num = maximum * labels[1].den
            /\ labels[Len(labels)].num = minimum * labels[Len(labels)].den
            /\ \A r \in 1..(Len(labels) - 1) :
                 labels[r].num * labels[r + 1].den > labels[r + 1].num * labels[r].den
            /\ \A r \in 1..Len(lines) :
                 /\ lines[r] # <<>>
                 /\ lines[r][Len(lines[r])] \notin {" ", "label"}
            /\ (call.arg.series = Single(<<Float(1), Float(2), Float(3), Float(2), Float(1)>>)
                   /\ cfg = Cfg(None, None, Some(4)))
               => Len(lines) = 4 + 1

\* C27 witness: [1, 2, 3, 2, 1] with height 4 gave five lines, the top one
\* ending at the peak and the bottom one at the axis
C27_Witness ==
    /\ ChartReturned
    /\ call.arg.series = Single(<<Float(1), Float(2), Float(3), Float(2), Float(1)>>)
    /\ call.arg.cfg = Cfg(None, None, Some(4))
    /\ Len(call.result.lines) = 5
    /\ Len(call.result.lines[1]) = offset + 3
    /\ Len(call.result.lines[5]) = offset

\* the cell of a returned line at a column counted from 0: what was cut at
\* the end of the line was blank
CellAt(line, column) == IF column + 1 <= Len(line) THEN line[column + 1] ELSE " "

\* the glyphs plot wrote in the column of the pair x, x + 1 (x counted from 0)
Drawn(x) ==
    {CellAt(call.result.lines[r], x + offset) : r \in 1..Len(call.result.lines)} \ {" "}

\* plot was given one series with a finite value in it and a range that is
\* not rejected
OneSeriesPlotted ==
    /\ call.op = "plot"
    /\ ~call.arg.series.nested
    /\ FiniteData(call.arg.series) # {}
    /\ call.result.raised # MinExceedsMax

\* C28: for a pair of adjacent points that are both non-finite (NaN or an
\* infinity) plot draws nothing; for a pair of a NaN and a finite value it
\* draws the dangling marker of that direction and nothing else.
C28_NonFinitePairs ==
    OneSeriesPlotted =>
        LET values == call.arg.series.lists[1]
        IN  /\ call.result.raised = "none"
            /\ \A x \in 0..(Len(values) - 2) :
                 LET d0 == values[x + 1]
                     d1 == values[x + 2]
                 IN  /\ (~isfinite(d0) /\ ~isfinite(d1)) => Drawn(x) = {}
                     /\ (isnan(d0) /\ isfinite(d1)) => Drawn(x) = {symbols[2]}
                     /\ (isfinite(d0) /\ isnan(d1)) => Drawn(x) = {symbols[3]}

\* C29: in a chart of one series, the column of a pair of finite points holds
\* a flat segment in their row if both scale to the same row; otherwise it
\* holds a corner in each of the two rows, of the rising or of the falling
\* kind, the vertical glyph in every row strictly between them, and in both
\* cases nothing else.
C29_FinitePairs ==
    (ChartReturned /\ Len(call.arg.series.lists) = 1) =>
        LET values == call.arg.series.lists[1]
            lines == call.result.lines
            rows == Len(lines) - 1
            sc == Scale(ResolvedMinimum(<<values>>, call.arg.cfg),
                        ResolvedMaximum(<<values>>, call.arg.cfg), call.arg.cfg)
        IN  \A x \in 0..(Len(values) - 2) :
                LET d0 == values[x + 1]
                    d1 == values[x + 2]
                    y0 == scaled(sc, d0)
                    y1 == scaled(sc, d1)
                    cell(y) == CellAt(lines[rows - y + 1], x + offset)
                IN  (isfinite(d0) /\ isfinite(d1)) =>
                        \A y \in 0..rows :
                            cell(y) =
                                IF y0 = y1 THEN (IF y = y0 THEN "flat" ELSE " ")
                                ELSE IF y0 < y1
                                THEN (IF y = y1 THEN "rise_upper"
                                      ELSE IF y = y0 THEN "rise_lower"
                                      ELSE IF y0 < y /\ y < y1 THEN "vertical" ELSE " ")
                                ELSE (IF y = y0 THEN "fall_upper"
                                      ELSE IF y = y1 THEN "fall_lower"
                                      ELSE IF y1 < y /\ y < y0 THEN "vertical" ELSE " ")

\* C29 witness: [0, 3] rises over four rows, a corner at the bottom and at the
\* top and the vertical glyph in the two rows between; [3, 3] would be flat
C29_Witness ==
    /\ ChartReturned
    /\ call.arg.series = Single(<<Float(0), Float(3)>>)
    /\ call.arg.cfg = NoCfg
    /\ [r \in 1..4 |-> CellAt(call.result.lines[r], offset)]
         = <<"rise_upper", "vertical", "vertical", "rise_lower">>

\* C30: a renderer tick on which a snapshot was received restarts the count
\* of empty drains, and a stall placeholder is ingested only on an empty
\* drain that brings the count above 10.
C30_StallCountRestartsOnReceipt ==
    [][UiPass =>
         /\ snapshot_queue.items # <<>> => dashboard'.snapshot_timeout_count = 0
         /\ (/\ dashboard'.current_snapshot # dashboard.current_snapshot
             /\ dashboard'.current_snapshot.status_message.text = "Waiting for snapshots")
            => /\ snapshot_queue.items = <<>>
               /\ dashboard'.snapshot_timeout_count > 10]_vars

\* C31: the worker and the renderer both test the stop flag between passes:
\* neither begins a pass of its loop once the stop flag is set, whether or
\* not it has been cancelled.
C31_NoPassOnceStopFlagSet ==
    [][(WorkerPass \/ UiPass) => ~stop_event]_vars

\* the fields a snapshot copies from the tracker
TrackerFields(s) ==
    <<s.forward_count, s.backward_count, s.total_activations, s.download_bytes,
      s.upload_bytes, s.remote_epoch, s.local_epoch, s.phase>>

\* the values of those fields in a tracker
TrackerValues(t) ==
    <<t.forward_count, t.backward_count, t.forward_count + t.backward_count,
      t.download_bytes, t.upload_bytes, t.remote_epoch, t.local_epoch, t.current_phase>>

\* a snapshot built by _build_snapshot, as opposed to a placeholder
IsReal(s) == s.status_message.text \in {"Phase", "Needs weight pull", "Collecting miner metrics"}

\* C32: every queued snapshot has total_activations = forward_count +
\* backward_count, and a real snapshot placed on the channel by a step carries
\* the counts, byte totals, epochs and phase the tracker had when that step
\* began, all of them from the same tracker state.
C32_SnapshotIsOneTrackerState ==
    /\ [](snapshot_queue # None =>
            \A i \in 1..Len(snapshot_queue.items) :
                snapshot_queue.items[i].total_activations
                    = snapshot_queue.items[i].forward_count + snapshot_queue.items[i].backward_count)
    /\ [][snapshot_queue' # None =>
            \A i \in 1..Len(snapshot_queue'.items) :
                (snapshot_queue'.items[i].id >= next_id /\ IsReal(snapshot_queue'.items[i]))
                => TrackerFields(snapshot_queue'.items[i]) = TrackerValues(tracker)]_vars

\* C32 witness: a real snapshot is queued that shows counts, bytes, an epoch
\* and a phase recorded before it was built, and the tracker has moved on since
C32_Witness ==
    /\ snapshot_queue # None
    /\ \E i \in 1..Len(snapshot_queue.items) :
         /\ IsReal(snapshot_queue.items[i])
         /\ snapshot_queue.items[i].total_activations > 0
         /\ TrackerFields(snapshot_queue.items[i]) # TrackerValues(tracker)
         /\ TrackerFields(snapshot_queue.items[i]) # TrackerValues(StatsTracker)

\* C33: when activation_rate is called with a positive window and at least one
\* stored sample counts as within it, the divisor, the smaller of the window
\* and the time since the oldest stored sample plus 1e-6, is positive and the
\* rate returned is positive, whatever timestamps the callers recorded.
C33_RateDivisorPositive ==
    [][(/\ IsCall("activation_rate")
        /\ call'.window > 0
        /\ InWindow(tracker'.activations, call'.time, call'.window) # {})
       => /\ Min(call'.window * Micro,
                 (call'.time - tracker'.activations[1].timestamp) * Micro + 1) > 0
          /\ call'.result.den > 0
          /\ call'.result.num > 0]_vars

\* the wallets of a list that have a name and an address, each with its
\* hotkeys that have a name and an address, as the parser returns them
Normalized(wallets) ==
    LET kept(hotkeys) == SelectSeq(hotkeys, LAMBDA h : h.name # "" /\ h.ss58_address # "")
        shown(c) == [name |-> [str |-> c.name], ss58_address |-> [str |-> c.ss58_address],
                     hotkeys |-> [i \in 1..Len(kept(c.hotkeys)) |->
                                    [name |-> [str |-> kept(c.hotkeys)[i].name],
                                     ss58_address |-> [str |-> kept(c.hotkeys)[i].ss58_address]]]]
        named == SelectSeq(wallets, LAMBDA c : IF "junk" \in DOMAIN c THEN FALSE
                                               ELSE c.name # "" /\ c.ss58_address # "")
    IN  [i \in 1..Len(named) |-> shown(named[i])]

\* C34: text that is not JSON is rejected with ValueError; wallets written
\* with the canonical keys and the same wallets written with the alternate
\* keys parse to the same result, the list of the wallets with their names,
\* addresses and hotkeys.
C34_AlternateKeysSameResult ==
    call.op = "parse_btcli_wallets" =>
        IF ~call.arg.text.json
        THEN call.raised /\ call.result.raised = "ValueError"
        ELSE /\ ~call.raised
             /\ call.result = parse_btcli_wallets(Written(call.arg.wallets, CanonicalKeys))
             /\ call.result = parse_btcli_wallets(Written(call.arg.wallets, AlternateKeys))
             /\ call.result.coldkeys = Normalized(call.arg.wallets)

\* C34 witness: two wallets written with the alternate keys were parsed, the
\* second with a hotkey, and both are in the result
C34_Witness ==
    /\ call.op = "parse_btcli_wallets"
    /\ call.arg.keys = AlternateKeys
    /\ Len(call.result.coldkeys) = 2
    /\ Len(call.result.coldkeys[2].hotkeys) = 1
    /\ call.result.coldkeys[2].hotkeys[1].name = [str |-> "iota_miner"]

\* C35: stop() on a dashboard that is not started, never started or stopped
\* before, leaves the stop flag, the cancellation requests, the tasks and
\* every other field of the dashboard as they were.
C35_StopWhenNotStartedIsNoOp ==
    [][IsCall("stop") /\ ~started =>
         /\ stop_event' = stop_event
         /\ worker_cancel' = worker_cancel /\ ui_cancel' = ui_cancel
         /\ worker_pc' = worker_pc /\ ui_pc' = ui_pc
         /\ <<started, snapshot_queue, snapshot_task, app_task, dashboard, stop_pc>>'
                = <<started, snapshot_queue, snapshot_task, app_task, dashboard, stop_pc>>]_vars

\* C35 witness: stop() was called on a dashboard that had been started and
\* stopped: its fields are released and its stop flag is still set
C35_Witness ==
    /\ call.op = "stop"
    /\ ~started
    /\ stop_event
    /\ snapshot_queue = None /\ snapshot_task = None /\ app_task = None /\ dashboard = None
    /\ worker_pc = "cancelled"

\* C36: when the UI task ends, by an error or by cancellation, the stop flag
\* is set, and it stays set while the dashboard holds the ended task; from
\* then on the worker publishes nothing and it ends, whether or not stop() is
\* called.  The step that ends the worker leaves the UI task
\* where it was, with no cancellation requested for it.
C36_RendererEndStopsBuilder ==
    /\ [][(ui_pc \notin Done /\ ui_pc' \in Done) => stop_event']_vars
    /\ []((app_task # None /\ ui_pc \in Done) => stop_event)
    /\ [][(app_task # None /\ ui_pc \in Done) => ~(WorkerPublishes)]_vars
    /\ ((app_task # None /\ ui_pc \in Done) ~> worker_pc \in Done)
    /\ [][(worker_pc \notin Done /\ worker_pc' \in Done)
            => (ui_pc' = ui_pc /\ ui_cancel' = ui_cancel)]_vars

\* C36 witness: the UI task ended on an error, the worker then left its loop
\* and returned, and stop() was never called
C36_Witness ==
    /\ ui_pc = "returned"
    /\ worker_pc = "returned"
    /\ started
    /\ stop_pc = "idle"
    /\ ~worker_cancel /\ ~ui_cancel

\* a task of the dashboard has ended by itself and no stop() has been called since
EndedOnItsOwn ==
    /\ app_task # None
    /\ stop_pc = "idle"
    /\ ~worker_cancel /\ ~ui_cancel
    /\ (worker_pc = "returned" \/ ui_pc = "returned")

\* C37: after a task has ended by itself the dashboard is still started and
\* a start() call changes nothing; the two tasks are only ever created by a
\* start() on a dashboard that is not started, that is, at first or after stop().
C37_NoRestartWithoutStop ==
    /\ [](EndedOnItsOwn => started)
    /\ [][(EndedOnItsOwn /\ start_calls' # start_calls) =>
            /\ started'
            /\ <<worker_pc, ui_pc, snapshot_task, app_task, snapshot_queue, dashboard,
                 stop_event, next_id>>'
                 = <<worker_pc, ui_pc, snapshot_task, app_task, snapshot_queue, dashboard,
                     stop_event, next_id>>]_vars
    /\ [][((worker_pc' = "created" /\ worker_pc # "created")
            \/ (ui_pc' = "created" /\ ui_pc # "created"))
          => (~started /\ stop_pc = "idle" /\ start_calls' # start_calls)]_vars

\* C37 witness: both tasks have ended by themselves, start() has been called
\* a second time, and the dashboard is started with its two ended tasks
C37_Witness ==
    /\ EndedOnItsOwn
    /\ worker_pc = "returned" /\ ui_pc = "returned"
    /\ started
    /\ start_calls = 0

\* C38: whenever the dashboard reports stopped and no stop() is in progress,
\* neither the worker task nor the UI task is alive, however start() and
\* stop() calls were interleaved, two stop() calls in flight together included.
C38_NoTaskAliveWhenStopped ==
    (~started /\ stop_pc = "idle") => (worker_pc \in Done \cup {"none"} /\ ui_pc \in Done \cup {"none"})

\* the three snapshots made without the tracker: in start(), in the worker's
\* except branch and in the renderer's stalled tick
IsPlaceholder(snapshot) ==
    snapshot.status_message.text \in
        {"Dashboard starting...", "Error building snapshot", "Waiting for snapshots"}

\* C39: a step in which the renderer ingests a placeholder snapshot leaves it
\* as the current snapshot with both counts, the total, both byte totals and
\* the activation rate at 0, appends 0.0 to the activation-rate history and
\* leaves the loss history as it was.
C39_PlaceholderIngestion ==
    [][(/\ dashboard # None /\ dashboard' # None
        /\ dashboard'.current_snapshot # None
        /\ dashboard'.current_snapshot # dashboard.current_snapshot
        /\ IsPlaceholder(dashboard'.current_snapshot)) =>
         /\ dashboard'.current_snapshot.forward_count = 0
         /\ dashboard'.current_snapshot.backward_count = 0
         /\ dashboard'.current_snapshot.total_activations = 0
         /\ dashboard'.current_snapshot.download_bytes = 0
         /\ dashboard'.current_snapshot.upload_bytes = 0
         /\ dashboard'.current_snapshot.activation_rate = Zero
         /\ dashboard'.activation_rate_history =
                DequeAppend(dashboard.activation_rate_history, Zero, HistoryMaxLen)
         /\ dashboard'.loss_history = dashboard.loss_history]_vars

\* a stall placeholder is the current snapshot after a snapshot of the
\* tracker, with its loss, was ingested
C39_Witness ==
    /\ dashboard # None
    /\ dashboard.current_snapshot # None
    /\ dashboard.current_snapshot.status_message.text = "Waiting for snapshots"
    /\ dashboard.loss_history # <<>>
    /\ Len(dashboard.activation_rate_history) >= 2

\* C40: when the series holds a finite value and the resolved minimum does
\* not exceed the maximum, every finite value scales to a row within 0..rows,
\* every pair of points is drawn in a column below the width of the grid, and
\* the call does not end in the IndexError of a write outside the grid.
C40_WritesInsideGrid ==
    (/\ call.op = "plot"
     /\ call.arg.series.lists[1] # <<>>
     /\ FiniteValues(call.arg.series.lists) # {}
     /\ ResolvedMinimum(call.arg.series.lists, call.arg.cfg)
            <= ResolvedMaximum(call.arg.series.lists, call.arg.cfg)) =>
        LET lists == call.arg.series.lists
            sc == Scale(ResolvedMinimum(lists, call.arg.cfg),
                        ResolvedMaximum(lists, call.arg.cfg), call.arg.cfg)
        IN  /\ \A i \in 1..Len(lists) : \A x \in 1..Len(lists[i]) :
                   isfinite(lists[i][x]) => scaled(sc, lists[i][x]) \in 0..sc.rows
            /\ \A i \in 1..Len(lists) : \A x \in 0..(Len(lists[i]) - 2) :
                   x + offset < Width(lists)
            /\ call.result.raised # "IndexError"

====
